---- MODULE Spec2Model ----
(***************************************************************************)
(* TenantConfigCore (src/src/core/tenant-config.core.ts): tenant           *)
(* configuration resolution, session-storage cache with TTL, state         *)
(* subjects and presentation side effects.                                  *)
(*                                                                         *)
(* An initializeTenant call is an async function: it runs in synchronous   *)
(* segments separated by its awaits.  Each segment is one action; calls    *)
(* of different slots interleave between segments only.                    *)
(*                                                                         *)
(* Strings that the code inspects by suffix or builds by concatenation are *)
(* sequences of '-'-separated segments; every config value is a record     *)
(* [s, t]: s the segments, t the cache-busting timestamp of `${s}?_t=${t}` *)
(* or NoTs.  JavaScript objects are functions whose DOMAIN is the set of   *)
(* own keys, so `delete` and an absent key are a smaller DOMAIN.           *)
(***************************************************************************)
EXTENDS Integers, Sequences, FiniteSets, TLC

\* ------------------------------------------------------------------ bounds
MaxTicks == 1

MaxStarts == 2

\* ------------------------------------------------------------- primitives
NULL == "null"

NoTs == 0 - 1

Str(x) == [s |-> <<x>>, t |-> NoTs]

Segs(q) == [s |-> q, t |-> NoTs]

Busted(v, ts) == [s |-> v.s, t |-> ts]

Undefined == [s |-> <<"undefined">>, t |-> NoTs - 1]

Truthy(v) == v # Undefined /\ v.s # << >>

EmptyObject == [k \in {} |-> Str("")]

Has(obj, k) == k \in DOMAIN obj

Get(obj, k) == IF k \in DOMAIN obj THEN obj[k] ELSE Undefined

Spread(a, b) == [k \in (DOMAIN a) \cup (DOMAIN b) |-> IF k \in DOMAIN b THEN b[k] ELSE a[k]]

Delete(obj, k) == [x \in (DOMAIN obj) \ {k} |-> obj[x]]

Put(obj, k, v) == [x \in (DOMAIN obj) \cup {k} |-> IF x = k THEN v ELSE obj[x]]

None == << >>

Some(x) == <<x>>

\* ------------------------------------------------------ the static registry
\* An entry is [base, subTenants]: base holds the entry's own keys as the
\* object spread copies them (the nested table appears in it as the one
\* opaque value of key subTenants), subTenants is the nested table itself.
\* "Yen" stands for the currency sign of the alipay override.
DefaultCacheTimeout == 24 * 60 * 60 * 1000

AlipayOverride ==
  [mode |-> Segs(<<"Privilege_Dufry", "alipay", "mode">>),
   redemptionPartnerCode |-> Str("Privilege_Dufry"),
   country |-> Str("CN"),
   title |-> Str("Privilege Dufry Alipay"),
   currencySymbol |-> Str("Yen")]

InitialAssetMapping ==
  [Privilege_Dufry |->
     [base |-> [mode |-> Segs(<<"Privilege_Dufry", "mode">>),
                redemptionPartnerCode |-> Str("Privilege_Dufry"),
                partnerLogo |-> Str("assets/tenants/Privilege_Dufry/images/logo.png"),
                country |-> Str("US"),
                title |-> Str("Privilege Dufry"),
                currencySymbol |-> Str("$"),
                subTenants |-> Str("[subTenants]")],
      subTenants |-> [alipay |-> AlipayOverride]],
   default |->
     [base |-> [mode |-> Segs(<<"default", "mode">>),
                redemptionPartnerCode |-> Str("default"),
                partnerLogo |-> Str("assets/tenants/default/images/logo.png"),
                country |-> Str("US"),
                title |-> Str("Default Tenant"),
                currencySymbol |-> Str("$")],
      subTenants |-> EmptyObject]]

Codes == {"Privilege_Dufry", "default", "unknown"}

\* the options of an initializeTenant call: alipay is a sub-tenant of
\* Privilege_Dufry and of no other tenant; to = 0 is an absent cacheTimeout
InitOptions ==
  {[code |-> "Privilege_Dufry", sub |-> NULL, url |-> TRUE, to |-> 0],
   [code |-> "Privilege_Dufry", sub |-> "alipay", url |-> TRUE, to |-> 0],
   [code |-> "Privilege_Dufry", sub |-> NULL, url |-> TRUE, to |-> 1000],
   [code |-> "Privilege_Dufry", sub |-> NULL, url |-> FALSE, to |-> 0],
   [code |-> "Privilege_Dufry", sub |-> NULL, url |-> FALSE, to |-> 1000],
   [code |-> "Privilege_Dufry", sub |-> "alipay", url |-> FALSE, to |-> 0],
   [code |-> "default", sub |-> "alipay", url |-> TRUE, to |-> 0],
   [code |-> "default", sub |-> NULL, url |-> FALSE, to |-> 0],
   [code |-> "unknown", sub |-> NULL, url |-> TRUE, to |-> 0],
   [code |-> "unknown", sub |-> NULL, url |-> TRUE, to |-> 1000]}

TickSteps == {1000}

Calls == {1, 2}

\* ------------------------------------------------------------------- state
VARIABLES
  assetMapping,       \* this.assetMapping
  tenantConfig,       \* this.tenantConfig
  cacheTimeout,       \* this.cacheTimeout
  currentTenant,      \* currentTenantSubject's value
  currentSubTenant,   \* currentSubTenantSubject's value
  tenantObserver,     \* <<getCurrentTenant(), getCurrentSubTenant()>> as read by a currentTenant$ subscriber when last notified
  subTenantObserver,  \* the same pair as read by a currentSubTenant$ subscriber when last notified
  storageObserver,    \* <<RedemptionPartnerCode, SubTenantId>> as read from session storage by a subscriber when last notified
  sessionStorage,     \* key -> stored value
  storageMode,        \* "ok", "full" (setItem throws) or "denied" (every access throws)
  bodyClasses,        \* document.body.classList, in order
  headLinks,          \* the link elements with id tenant-specific-styles in head, in order: [href, node]
  now,                \* Date.now()
  ticks,              \* clock advances so far
  starts,             \* initializeTenant calls made so far
  cleared,            \* the engine's last operation when it was a clearCache(T) with a cache of T to clear, else NoClear
  call,               \* per slot: the position and locals of the initializeTenant call in it
  state,              \* TenantManager: this.state
  options,            \* TenantManager: this.options
  eventListeners,     \* TenantManager: this.eventListeners, event type -> listeners in order
  tenantConfigs,      \* TenantManager: this.tenantConfigs
  emitted,            \* TenantManager: the emits of the manager's last step: [type, registered, invoked]
  managerCall,        \* TenantManager: per slot, the position and arguments of the manager call in it
  managerStarts       \* TenantManager: manager calls made so far

managerVars == <<state, options, eventListeners, tenantConfigs, emitted, managerCall,
                 managerStarts>>

coreVars == <<assetMapping, tenantConfig, cacheTimeout, currentTenant, currentSubTenant,
              tenantObserver, subTenantObserver, storageObserver, headLinks, now, ticks,
              starts, cleared, call>>

vars == <<assetMapping, tenantConfig, cacheTimeout, currentTenant, currentSubTenant,
          tenantObserver, subTenantObserver, storageObserver, sessionStorage, storageMode,
          bodyClasses, headLinks, now, ticks, starts, cleared, call,
          state, options, eventListeners, tenantConfigs, emitted, managerCall,
          managerStarts>>

\* ---------------------------------------------------------- session storage
\* storageMode "denied": the page may not use session storage, every access
\* throws from the start and the storage stays empty; "full": the quota is
\* reached, setItem throws while getItem and removeItem work.
CacheKey(code) == <<"tenant_config", code>>

TenantKey == <<"RedemptionPartnerCode">>

SubTenantKey == <<"SubTenantId">>

TextItem(str) == [json |-> "text", data |-> EmptyObject, timestamp |-> 0, text |-> str]

\* getItem of a key that holds a plain string: the string, or NULL when absent
StoredText(st, key) == IF Has(st, key) THEN st[key].text ELSE NULL

\* JSON.stringify drops the keys whose value is undefined
Stringify(obj) == [k \in {x \in DOMAIN obj : obj[x] # Undefined} |-> obj[k]]

EntryItem(data, timestamp) ==
  [json |-> "entry", data |-> Stringify(data), timestamp |-> timestamp, text |-> ""]

\* a stored string that JSON.parse rejects
UnparsableItem == [json |-> "unparsable", data |-> EmptyObject, timestamp |-> 0, text |-> ""]

\* a stored JSON object that has neither data nor timestamp
MalformedItem == [json |-> "malformed", data |-> EmptyObject, timestamp |-> 0, text |-> ""]

\* IsCacheValid with the comparison turned around
IsCacheValidReversed(cachedConfig, clock, ttl) ==
  IF cachedConfig.json = "entry" THEN clock - cachedConfig.timestamp > ttl
  ELSE FALSE

\* IsCacheValid that still accepts an entry whose age equals the TTL
IsCacheValidInclusive(cachedConfig, clock, ttl) ==
  IF cachedConfig.json = "entry" THEN clock - cachedConfig.timestamp <= ttl
  ELSE FALSE

IsCacheValid(cachedConfig, clock, ttl) ==
  IF cachedConfig.json = "entry" THEN clock - cachedConfig.timestamp < ttl
  ELSE FALSE   \* Date.now() - undefined is NaN, and NaN < ttl is false

\* getCachedConfig: [value |-> None or Some(config), storage |-> the storage afterwards]
GetCachedConfig(code, st, mode, clock, ttl) ==
  IF mode = "denied" THEN [value |-> None, storage |-> st]
  ELSE IF ~Has(st, CacheKey(code)) THEN [value |-> None, storage |-> st]
  ELSE LET cached == st[CacheKey(code)] IN
       IF cached.json \in {"unparsable", "text"} THEN [value |-> None, storage |-> st]
       ELSE IF IsCacheValid(cached, clock, ttl) THEN [value |-> Some(cached.data), storage |-> st]
       ELSE [value |-> None, storage |-> Delete(st, CacheKey(code))]

\* ------------------------------------------------------------- the resolver
\* a fallback that yields null instead of the copy of the baseline
BaseCopyNull(mapping, code) == None

BaseCopy(mapping, code) ==
  IF Has(mapping, code) THEN Some(mapping[code].base) ELSE None

\* MergeRemote in which the payload's own keys are spread last
MergeRemotePayloadLast(baseAssetConfig, config, code, timestamp) ==
  LET welcomeImg == IF Truthy(Get(config, "BrandImageUrl"))
                    THEN Busted(config["BrandImageUrl"], timestamp)
                    ELSE Get(baseAssetConfig, "partnerLogo")
      storeLogo == IF Truthy(Get(config, "LogoUrl"))
                   THEN Busted(config["LogoUrl"], timestamp)
                   ELSE Get(baseAssetConfig, "partnerLogo")
      partnerName == IF Truthy(Get(config, "Title"))
                     THEN config["Title"]
                     ELSE Get(baseAssetConfig, "title")
  IN Spread(Spread(baseAssetConfig,
                   [welcomeImg |-> welcomeImg, storeLogo |-> storeLogo,
                    partnerName |-> partnerName, redemptionPartnerCode |-> Str(code)]),
            config)

MergeRemote(baseAssetConfig, config, code, timestamp) ==
  LET welcomeImg == IF Truthy(Get(config, "BrandImageUrl"))
                    THEN Busted(config["BrandImageUrl"], timestamp)
                    ELSE Get(baseAssetConfig, "partnerLogo")
      storeLogo == IF Truthy(Get(config, "LogoUrl"))
                   THEN Busted(config["LogoUrl"], timestamp)
                   ELSE Get(baseAssetConfig, "partnerLogo")
      partnerName == IF Truthy(Get(config, "Title"))
                     THEN config["Title"]
                     ELSE Get(baseAssetConfig, "title")
  IN Spread(Spread(baseAssetConfig, config),
            [welcomeImg |-> welcomeImg, storeLogo |-> storeLogo,
             partnerName |-> partnerName, redemptionPartnerCode |-> Str(code)])

\* MergeSubTenant in which the merged config wins over the override
MergeSubTenantUnder(mergedConfig, entry, subTenantId) ==
  IF subTenantId # NULL /\ Has(entry.subTenants, subTenantId)
  THEN Spread(Spread(entry.subTenants[subTenantId], mergedConfig),
              [currentSubTenant |-> Str(subTenantId), subTenantId |-> Str(subTenantId)])
  ELSE mergedConfig

MergeSubTenant(mergedConfig, entry, subTenantId) ==
  IF subTenantId # NULL /\ Has(entry.subTenants, subTenantId)
  THEN Spread(Spread(mergedConfig, entry.subTenants[subTenantId]),
              [currentSubTenant |-> Str(subTenantId), subTenantId |-> Str(subTenantId)])
  ELSE mergedConfig

CodeIncludes(doc, code) == \E i \in 1..Len(doc.Code) : doc.Code[i] = code

RECURSIVE Find(_, _, _)
Find(results, code, i) ==
  IF i > Len(results) THEN 0
  ELSE IF CodeIncludes(results[i], code) THEN i
  ELSE Find(results, code, i + 1)

\* MergeLegal that takes both paths from the first document
MergeLegalFirstOnly(mergedConfig, results, code, timestamp) ==
  IF Len(results) > 0
  THEN Spread(mergedConfig,
              [termsAndConditionsPath |-> Busted(results[1].Url, timestamp),
               privacyPolicyPath |-> Busted(results[1].Url, timestamp)])
  ELSE mergedConfig

MergeLegal(mergedConfig, results, code, timestamp) ==
  IF Len(results) > 0
  THEN LET found == Find(results, code, 1)
           termsDoc == IF found # 0 THEN results[found] ELSE results[1]
       IN Spread(mergedConfig,
                 [termsAndConditionsPath |-> Busted(termsDoc.Url, timestamp),
                  privacyPolicyPath |-> Busted(results[1].Url, timestamp)])
  ELSE mergedConfig

\* ----------------------------------------------------------- presentation
EndsWithMode(cls) == Len(cls) >= 2 /\ cls[Len(cls)] = "mode"

RemoveAt(list, i) == [j \in 1..(Len(list) - 1) |-> IF j < i THEN list[j] ELSE list[j + 1]]

\* classList.forEach over the live list: a removal at index i moves the next
\* class to index i, and the iteration goes on at i + 1
RECURSIVE RemoveModeClasses(_, _)
RemoveModeClasses(list, i) ==
  IF i > Len(list) THEN list
  ELSE IF EndsWithMode(list[i]) THEN RemoveModeClasses(RemoveAt(list, i), i + 1)
  ELSE RemoveModeClasses(list, i + 1)

ClassListAdd(list, cls) ==
  IF \E i \in 1..Len(list) : list[i] = cls THEN list ELSE Append(list, cls)

GetModeClass(config) ==
  IF Truthy(Get(config, "subTenantId"))
  THEN Get(config, "mode").s \o Get(config, "subTenantId").s
  ELSE Get(config, "mode").s

ApplyModeClass(list, config) ==
  ClassListAdd(RemoveModeClasses(list, 1), GetModeClass(config))

StylesHref(tenant, subTenant) ==
  IF subTenant # NULL
  THEN <<"assets", "tenants", tenant, subTenant, "styles", "tenant.css">>
  ELSE <<"assets", "tenants", tenant, "styles", "tenant.css">>

\* the element that document.createElement returns is a new one: elements
\* are numbered in the order of their creation
NewNode(links) ==
  IF Len(links) > 0 THEN links[Len(links)].node + 1 ELSE 1

\* loadTenantStyles that appends the new link and leaves the old one in the head
LoadTenantStylesKeeping(links, tenant, subTenant) ==
  Append(links, [href |-> StylesHref(tenant, subTenant), node |-> NewNode(links)])

\* getElementById removes the first link with the id, the new one is appended
\* (the document has a head; a link fires load or error whether or not a later
\* call has removed it from the head in the meantime)
LoadTenantStyles(links, tenant, subTenant) ==
  Append(IF Len(links) > 0 THEN Tail(links) ELSE links,
         [href |-> StylesHref(tenant, subTenant), node |-> NewNode(links)])

\* ------------------------------------------------------------------ getters
GetCurrentTenant == currentTenant

GetCurrentSubTenant == currentSubTenant

GetAllConfig ==
  IF Has(tenantConfig, currentTenant) THEN Some(tenantConfig[currentTenant])
  ELSE BaseCopy(assetMapping, currentTenant)

GetConfig(key) ==
  IF Has(tenantConfig, currentTenant) THEN Get(tenantConfig[currentTenant], key)
  ELSE IF Has(assetMapping, currentTenant) THEN Get(assetMapping[currentTenant].base, key)
  ELSE Undefined

\* ------------------------------------------------------------ remote inputs
PayloadFull ==
  [title |-> Str("Remote Title"),
   Title |-> Str("Remote Partner"),
   BrandImageUrl |-> Str("https://cdn/brand.png"),
   LogoUrl |-> Str("https://cdn/logo.png"),
   welcomeImg |-> Str("remote-welcome.png"),
   redemptionPartnerCode |-> Str("remote-code")]

RemotePayloads == {PayloadFull}

\* payloads of the shapes that the merge treats apart: none of the keys, a
\* plain field alone, a computed field without and with its source, and
\* the keys that the engine sets itself (tenant code, sub-tenant tag, legal
\* path)
PayloadEmpty == EmptyObject

PayloadTitle == [title |-> Str("Remote Title")]

PayloadWelcome == [welcomeImg |-> Str("remote-welcome.png")]

PayloadBrand == [BrandImageUrl |-> Str("https://cdn/brand.png"), Title |-> Str("Remote Partner")]

PayloadTagged ==
  [redemptionPartnerCode |-> Str("remote-code"),
   subTenantId |-> Str("remote-sub"),
   termsAndConditionsPath |-> Str("remote-terms")]

\* a payload with values of its own for the derived fields and with empty
\* strings where the engine looks for their sources
PayloadDerived ==
  [BrandImageUrl |-> Segs(<< >>),
   Title |-> Segs(<< >>),
   welcomeImg |-> Str("remote-welcome.png"),
   storeLogo |-> Str("remote-store.png"),
   partnerName |-> Str("Remote Name")]

MergePayloads ==
  {PayloadEmpty, PayloadTitle, PayloadWelcome, PayloadBrand, PayloadTagged, PayloadFull,
   PayloadDerived}

GenericDoc == [Code |-> <<"GENERIC", "PP">>, Url |-> Str("https://legal/generic")]

TenantDoc(code) == [Code |-> <<code, "TC">>, Url |-> Str("https://legal/terms")]

\* the Results of a legal-document response: two documents, or none
LegalResults(code) == {<<GenericDoc, TenantDoc(code)>>, << >>}

\* a second document of the tenant, its code in another position of Code
TenantDocAlt(code) == [Code |-> <<"TC", code, "v2">>, Url |-> Str("https://legal/terms-v2")]

\* the Results lists that the selection treats apart: none, no document of
\* the tenant, the tenant's document first, after another one, and two
\* documents of the tenant after another one
LegalLists(code) ==
  LegalResults(code) \cup
    {<<GenericDoc>>,
     <<TenantDoc(code), GenericDoc>>,
     <<GenericDoc, TenantDocAlt(code), TenantDoc(code)>>}

\* ---------------------------------------------------- run-time registrations
\* entries that a host hands to updateAssetMapping: a tenant of its own whose
\* redemptionPartnerCode names the partner's code at the remote service, and
\* the entry of Privilege_Dufry with an alipay override of its own code
PartnerEntry ==
  [base |-> [mode |-> Segs(<<"unknown", "mode">>),
             redemptionPartnerCode |-> Str("Partner_X"),
             partnerLogo |-> Str("assets/tenants/unknown/images/logo.png"),
             country |-> Str("DE"),
             title |-> Str("Partner"),
             currencySymbol |-> Str("EUR")],
   subTenants |-> EmptyObject]

DufryAlipayEntry ==
  [base |-> InitialAssetMapping["Privilege_Dufry"].base,
   subTenants |-> [alipay |-> [AlipayOverride EXCEPT !.redemptionPartnerCode = Str("Alipay_CN")]]]

\* the entry of Privilege_Dufry with a new logo and title
DufryRebrandedEntry ==
  [base |-> [InitialAssetMapping["Privilege_Dufry"].base
               EXCEPT !.partnerLogo = Str("assets/tenants/Privilege_Dufry/images/logo-2.png"),
                      !.title = Str("Dufry Rewards")],
   subTenants |-> InitialAssetMapping["Privilege_Dufry"].subTenants]

AssetUpdates ==
  {[tenantCode |-> "unknown", assetConfig |-> PartnerEntry],
   [tenantCode |-> "Privilege_Dufry", assetConfig |-> DufryAlipayEntry],
   [tenantCode |-> "Privilege_Dufry", assetConfig |-> DufryRebrandedEntry]}

\* ------------------------------------------------------------------- calls
IdleCall ==
  [pc |-> "idle", code |-> NULL, sub |-> NULL, url |-> FALSE, to |-> 0,
   rsub |-> NULL, ts |-> 0, remote |-> EmptyObject, merged |-> EmptyObject, config |-> None,
   path |-> "none", lookup |-> "none", reqs |-> 0, legal |-> "none",
   outcome |-> "none", overlapped |-> FALSE, afterClear |-> FALSE, serial |-> 0]

Busy(c) == call[c].pc # "idle"

\* what the session storage holds for the tenant when a call looks it up
\* (recorded in the call for the properties below; the code does not read it)
EntryState(st, code, clock, ttl) ==
  IF ~Has(st, CacheKey(code)) THEN "absent"
  ELSE IF st[CacheKey(code)].json # "entry" THEN "damaged"
  ELSE IF clock - st[CacheKey(code)].timestamp >= ttl THEN "expired"
  ELSE "valid"

\* no clearCache call was the last operation
NoClear == [code |-> NULL, valid |-> FALSE]

\* a clearCache(tenantCode) call as the last operation: code is the tenant
\* when the call found a config of it in memory or a still valid entry of
\* it in storage, valid tells whether it found the latter
Clearing(tenantCode) ==
  LET valid == /\ storageMode # "denied"
               /\ EntryState(sessionStorage, tenantCode, now, cacheTimeout) = "valid"
  IN IF tenantCode # NULL /\ (valid \/ Has(tenantConfig, tenantCode))
     THEN [code |-> tenantCode, valid |-> valid]
     ELSE NoClear

\* ------------------------------------------------------------ TenantManager
MaxManagerStarts == 2

MaxListeners == 3

EventTypes == {"tenantChange", "subTenantChange", "configLoad", "error", "initialized"}

ManagerSubTenantKey == <<"tenant">>

\* a TenantConfig of the manager: own holds its plain keys, subTenants the
\* table under its subTenants key, None when it has no such key
Config(own, subTenants) == [own |-> own, subTenants |-> subTenants]

EmptyConfig == Config(EmptyObject, None)

\* { ...a, ...b }
SpreadConfig(a, b) ==
  Config(Spread(a.own, b.own), IF b.subTenants # None THEN b.subTenants ELSE a.subTenants)

\* config.subTenants?.[subTenantId]: None when undefined
SubTenantOf(config, subTenantId) ==
  IF config.subTenants # None /\ Has(config.subTenants[1], subTenantId)
  THEN Some(config.subTenants[1][subTenantId])
  ELSE None

\* a class token with white space in it, which classList.add rejects
ContainsWhitespace(v) == \E i \in 1..Len(v.s) : v.s[i] = " "

\* the options of the constructor: apiBaseUrl is TRUE for a non-empty URL;
\* onConfigLoad says what the host's callback does
DefaultOptions ==
  [apiBaseUrl |-> FALSE, defaultTenant |-> "default", enableSessionStorage |-> TRUE,
   enableUrlParsing |-> TRUE, enableAutoTheming |-> TRUE, onConfigLoad |-> "returns"]

ManagerOptions ==
  {DefaultOptions,
   [DefaultOptions EXCEPT !.apiBaseUrl = TRUE],
   [DefaultOptions EXCEPT !.onConfigLoad = "throws"],
   [DefaultOptions EXCEPT !.enableSessionStorage = FALSE, !.enableAutoTheming = FALSE]}

InitialState ==
  [currentTenant |-> NULL, currentSubTenant |-> NULL, config |-> None,
   isInitialized |-> FALSE, isLoading |-> FALSE]

\* the tenants and sub-tenants that the host asks for, and the configs it
\* registers with setTenantConfig: tenant1 with a sub-tenant table, tenant2
\* with a mode that is no class token
ManagerTenants == {"tenant1", "tenant2"}

ManagerSubTenants == {"subtenant1"}

LocalTenant1 ==
  Config([mode |-> Segs(<<"tenant1", "mode">>), title |-> Str("Tenant 1 Application"),
          paymentPartner |-> Str("stripe")],
         Some([subtenant1 |-> [title |-> Str("Subtenant 1"), paymentPartner |-> Str("alipay")]]))

LocalTenant2 ==
  Config([mode |-> Segs(<<"tenant2", " ", "mode">>), title |-> Str("Tenant 2 Application")], None)

LocalConfigs ==
  {[tenantId |-> "tenant1", config |-> LocalTenant1],
   [tenantId |-> "tenant2", config |-> LocalTenant2]}

\* data of a successful API response
ApiPayloads == {Config([title |-> Str("Remote Title")], None)}

\* window.location of the page: no query string, so parseUrlParameters finds
\* neither a tenant nor a sub-tenant
UrlParameters == [tenantId |-> NULL, subTenantId |-> NULL]

\* the listeners of the host, by what they do when invoked: return, throw,
\* call off() for themselves, call off() for the listener quiet
Listeners == {"quiet", "thrower", "leaver", "remover"}

\* the event types that the host registers listeners for
ListenedTypes == {"tenantChange"}

IndexOf(list, x) ==
  IF \E i \in 1..Len(list) : list[i] = x
  THEN CHOOSE i \in 1..Len(list) : list[i] = x /\ \A j \in 1..(i - 1) : list[j] # x
  ELSE 0

\* off(): splice of the first occurrence
OffList(listeners, listener) ==
  IF IndexOf(listeners, listener) > 0
  THEN RemoveAt(listeners, IndexOf(listeners, listener))
  ELSE listeners

\* listeners.forEach of emit over the live array: the indices below the
\* length at the start are visited in order, those that the array no longer
\* has are skipped; a throw of the listener is caught
RECURSIVE ForEachListener(_, _, _, _)
ForEachListener(listeners, k, len, invoked) ==
  IF k > len THEN [listeners |-> listeners, invoked |-> invoked, thrown |-> FALSE]
  ELSE IF k > Len(listeners) THEN ForEachListener(listeners, k + 1, len, invoked)
  ELSE LET listener == listeners[k]
           after == IF listener = "leaver" THEN OffList(listeners, "leaver")
                    ELSE IF listener = "remover" THEN OffList(listeners, "quiet")
                    ELSE listeners
       IN ForEachListener(after, k + 1, len, Append(invoked, listener))

\* emit whose forEach callback has no try/catch: the first throw ends it
EmitUnguarded(listeners) ==
  LET all == ForEachListener(listeners, 1, Len(listeners), << >>)
      first == IndexOf(all.invoked, "thrower")
  IN IF first = 0 THEN all
     ELSE [listeners |-> all.listeners, invoked |-> SubSeq(all.invoked, 1, first),
           thrown |-> TRUE]

Emit(listeners) == ForEachListener(listeners, 1, Len(listeners), << >>)

Emitted(eventType, registered, emit) ==
  [type |-> eventType, registered |-> registered, invoked |-> emit.invoked]

\* storeInSessionStorage, lines 250-253
StoreInSessionStorage(st, tenantId, subTenantId) ==
  LET withTenant == Put(st, TenantKey, TextItem(tenantId))
  IN IF subTenantId # NULL
     THEN Put(withTenant, ManagerSubTenantKey, TextItem(subTenantId))
     ELSE withTenant

\* applyTheming, lines 261-271, for a mode that is set and a class token
ApplyTheming(list, config) ==
  ClassListAdd(RemoveModeClasses(list, 1), Get(config.own, "mode").s)

IdleManagerCall ==
  [pc |-> "idle", op |-> "none", tenantId |-> NULL, subTenantId |-> NULL, outcome |-> "none"]


\* every call that is not idle has had another call run beside it
Disturbed == [d \in Calls |-> IF Busy(d) THEN [call[d] EXCEPT !.overlapped = TRUE] ELSE call[d]]

Init ==
  /\ assetMapping = InitialAssetMapping
  /\ tenantConfig = EmptyObject
  /\ cacheTimeout = DefaultCacheTimeout
  /\ currentTenant = "default"
  /\ currentSubTenant = NULL
  /\ tenantObserver = <<"default", NULL>>
  /\ subTenantObserver = <<"default", NULL>>
  /\ storageObserver = <<NULL, NULL>>
  /\ sessionStorage = EmptyObject
  /\ storageMode \in {"ok", "denied"}
  /\ bodyClasses = << >>
  /\ headLinks = << >>
  /\ now = 0
  /\ ticks = 0
  /\ starts = 0
  /\ cleared = NoClear
  /\ call = [c \in Calls |-> IdleCall]
  /\ state = InitialState
  /\ options = DefaultOptions
  /\ eventListeners = [eventType \in EventTypes |-> << >>]
  /\ tenantConfigs = EmptyObject
  /\ emitted = << >>
  /\ managerCall = [c \in Calls |-> IdleManagerCall]
  /\ managerStarts = 0

\* Continue that goes on to the stylesheet without advancing the subjects
ContinueUnpublished(c, rec, cs, st) ==
  IF rec.config = None
  THEN /\ call' = [cs EXCEPT ![c] = [rec EXCEPT !.pc = "settled", !.outcome = "resolved"]]
       /\ sessionStorage' = st
       /\ UNCHANGED <<currentTenant, currentSubTenant, tenantObserver, subTenantObserver, storageObserver,
                      bodyClasses, headLinks>>
  ELSE LET subThrows == IF rec.rsub # NULL THEN storageMode # "ok" ELSE storageMode = "denied"
           st1 == IF subThrows THEN st
                  ELSE IF rec.rsub # NULL THEN Put(st, SubTenantKey, TextItem(rec.rsub))
                  ELSE Delete(st, SubTenantKey)
           thrown == subThrows \/ storageMode # "ok"
           st2 == IF thrown THEN st1 ELSE Put(st1, TenantKey, TextItem(rec.code))
       IN /\ currentTenant' = currentTenant
          /\ tenantObserver' = <<rec.code, currentSubTenant>>
          /\ currentSubTenant' = currentSubTenant
          /\ subTenantObserver' = <<rec.code, rec.rsub>>
          /\ storageObserver' = <<StoredText(st, TenantKey), StoredText(st, SubTenantKey)>>
          /\ sessionStorage' = st2
          /\ bodyClasses' = IF thrown THEN bodyClasses ELSE ApplyModeClass(bodyClasses, rec.config[1])
          /\ headLinks' = IF thrown THEN headLinks ELSE LoadTenantStyles(headLinks, rec.code, rec.rsub)
          /\ call' = [cs EXCEPT ![c] = IF thrown
                                        THEN [rec EXCEPT !.pc = "settled", !.outcome = "rejected"]
                                        ELSE [rec EXCEPT !.pc = "styles"]]

\* Continue in which a call does not advance the subjects once a call
\* initiated after it has advanced them
ContinueLatestWins(c, rec, cs, st) ==
  IF rec.config = None
  THEN /\ call' = [cs EXCEPT ![c] = [rec EXCEPT !.pc = "settled", !.outcome = "resolved"]]
       /\ sessionStorage' = st
       /\ UNCHANGED <<currentTenant, currentSubTenant, tenantObserver, subTenantObserver, storageObserver,
                      bodyClasses, headLinks>>
  ELSE LET subThrows == IF rec.rsub # NULL THEN storageMode # "ok" ELSE storageMode = "denied"
           st1 == IF subThrows THEN st
                  ELSE IF rec.rsub # NULL THEN Put(st, SubTenantKey, TextItem(rec.rsub))
                  ELSE Delete(st, SubTenantKey)
           thrown == subThrows \/ storageMode # "ok"
           st2 == IF thrown THEN st1 ELSE Put(st1, TenantKey, TextItem(rec.code))
           superseded == \E d \in Calls \ {c} :
                            /\ cs[d].serial > rec.serial /\ cs[d].config # None
                            /\ cs[d].pc \in {"styles", "settled"}
       IN /\ currentTenant' = IF superseded THEN currentTenant ELSE rec.code
          /\ tenantObserver' = <<rec.code, currentSubTenant>>
          /\ currentSubTenant' = IF superseded THEN currentSubTenant ELSE rec.rsub
          /\ subTenantObserver' = <<rec.code, rec.rsub>>
          /\ storageObserver' = <<StoredText(st, TenantKey), StoredText(st, SubTenantKey)>>
          /\ sessionStorage' = st2
          /\ bodyClasses' = IF thrown THEN bodyClasses ELSE ApplyModeClass(bodyClasses, rec.config[1])
          /\ headLinks' = IF thrown THEN headLinks ELSE LoadTenantStyles(headLinks, rec.code, rec.rsub)
          /\ call' = [cs EXCEPT ![c] = IF thrown
                                        THEN [rec EXCEPT !.pc = "settled", !.outcome = "rejected"]
                                        ELSE [rec EXCEPT !.pc = "styles"]]

\* initializeTenant lines 210-233, run by the call rec of slot c over the
\* slots cs and the storage st: the state subjects, the identity keys, the
\* mode class and the stylesheet link
Continue(c, rec, cs, st) ==
  IF rec.config = None
  THEN /\ call' = [cs EXCEPT ![c] = [rec EXCEPT !.pc = "settled", !.outcome = "resolved"]]
       /\ sessionStorage' = st
       /\ UNCHANGED <<currentTenant, currentSubTenant, tenantObserver, subTenantObserver, storageObserver,
                      bodyClasses, headLinks>>
  ELSE LET subThrows == IF rec.rsub # NULL THEN storageMode # "ok" ELSE storageMode = "denied"
           st1 == IF subThrows THEN st
                  ELSE IF rec.rsub # NULL THEN Put(st, SubTenantKey, TextItem(rec.rsub))
                  ELSE Delete(st, SubTenantKey)
           thrown == subThrows \/ storageMode # "ok"
           st2 == IF thrown THEN st1 ELSE Put(st1, TenantKey, TextItem(rec.code))
       IN /\ currentTenant' = rec.code
          /\ tenantObserver' = <<rec.code, currentSubTenant>>
          /\ currentSubTenant' = rec.rsub
          /\ subTenantObserver' = <<rec.code, rec.rsub>>
          /\ storageObserver' = <<StoredText(st, TenantKey), StoredText(st, SubTenantKey)>>
          /\ sessionStorage' = st2
          /\ bodyClasses' = IF thrown THEN bodyClasses ELSE ApplyModeClass(bodyClasses, rec.config[1])
          /\ headLinks' = IF thrown THEN headLinks ELSE LoadTenantStyles(headLinks, rec.code, rec.rsub)
          /\ call' = [cs EXCEPT ![c] = IF thrown
                                        THEN [rec EXCEPT !.pc = "settled", !.outcome = "rejected"]
                                        ELSE [rec EXCEPT !.pc = "styles"]]

\* initializeTenant up to its first await
Start(c, code, sub, url, to) ==
  /\ call[c].pc = "idle"
  /\ \A d \in Calls : call[d].pc = "idle" => c <= d
  /\ starts < MaxStarts
  /\ starts' = starts + 1
  /\ cleared' = NoClear
  /\ UNCHANGED managerVars
  /\ LET ttl == IF to # 0 THEN to ELSE cacheTimeout
         rec0 == [IdleCall EXCEPT !.code = code, !.sub = sub, !.url = url, !.to = to,
                                  !.overlapped = \E d \in Calls \ {c} : Busy(d),
                                  !.afterClear = (cleared.code = code /\ cleared.valid),
                                  !.serial = starts + 1]
     IN /\ cacheTimeout' = ttl
        /\ UNCHANGED <<assetMapping, storageMode, now, ticks>>
        /\ IF ~Has(assetMapping, code)
           THEN /\ call' = [Disturbed EXCEPT ![c] = [rec0 EXCEPT !.pc = "settled", !.path = "invalid",
                                                                  !.outcome = "resolved"]]
                /\ UNCHANGED <<tenantConfig, currentTenant, currentSubTenant, tenantObserver,
                               subTenantObserver, storageObserver, sessionStorage, bodyClasses, headLinks>>
           ELSE LET rsub == IF sub # NULL /\ Has(assetMapping[code].subTenants, sub) THEN sub ELSE NULL
                    lookup == GetCachedConfig(code, sessionStorage, storageMode, now, ttl)
                    rec1 == [rec0 EXCEPT !.rsub = rsub,
                                         !.lookup = EntryState(sessionStorage, code, now, ttl)]
                IN IF lookup.value # None
                   THEN /\ Continue(c, [rec1 EXCEPT !.path = "hit", !.config = lookup.value],
                                     Disturbed, lookup.storage)
                        /\ UNCHANGED tenantConfig
                   ELSE IF ~url
                   THEN /\ call' = [Disturbed EXCEPT ![c] =
                                      [rec1 EXCEPT !.pc = "resume", !.path = "local",
                                                   !.config = BaseCopy(assetMapping, code)]]
                        /\ sessionStorage' = lookup.storage
                        /\ UNCHANGED <<tenantConfig, currentTenant, currentSubTenant, tenantObserver,
                                       subTenantObserver, storageObserver, bodyClasses, headLinks>>
                   ELSE /\ call' = [Disturbed EXCEPT ![c] =
                                      [rec1 EXCEPT !.pc = "config", !.ts = now, !.reqs = 1]]
                        /\ tenantConfig' = Delete(tenantConfig, code)
                        /\ sessionStorage' = lookup.storage
                        /\ UNCHANGED <<currentTenant, currentSubTenant, tenantObserver,
                                       subTenantObserver, storageObserver, bodyClasses, headLinks>>

\* the config GET resolves: merge, then the legal-document GET is issued
ConfigResponse(c, config) ==
  /\ cleared' = NoClear
  /\ UNCHANGED managerVars
  /\ call[c].pc = "config"
  /\ call' = [call EXCEPT ![c] =
        IF Has(assetMapping, call[c].code)
        THEN [call[c] EXCEPT !.pc = "legal", !.reqs = 2, !.remote = config,
                !.merged = MergeSubTenant(
                             MergeRemote(assetMapping[call[c].code].base, config, call[c].code, call[c].ts),
                             assetMapping[call[c].code], call[c].rsub)]
        ELSE [call[c] EXCEPT !.pc = "resume", !.path = "fetchfail", !.config = None]]
  /\ UNCHANGED <<assetMapping, tenantConfig, cacheTimeout, currentTenant, currentSubTenant,
                 tenantObserver, subTenantObserver, storageObserver, sessionStorage, storageMode,
                 bodyClasses, headLinks, now, ticks, starts>>

\* ConfigFailure that also stores the baseline copy as a cache entry
ConfigFailureCaching(c) ==
  /\ cleared' = NoClear
  /\ UNCHANGED managerVars
  /\ call[c].pc = "config"
  /\ call' = [call EXCEPT ![c] = [call[c] EXCEPT !.pc = "resume", !.path = "fetchfail",
                                     !.config = BaseCopy(assetMapping, call[c].code)]]
  /\ sessionStorage' = IF storageMode = "ok" /\ Has(assetMapping, call[c].code)
                        THEN Put(sessionStorage, CacheKey(call[c].code),
                                 EntryItem(assetMapping[call[c].code].base, call[c].ts))
                        ELSE sessionStorage
  /\ UNCHANGED <<assetMapping, tenantConfig, cacheTimeout, currentTenant, currentSubTenant,
                 tenantObserver, subTenantObserver, storageObserver, storageMode,
                 bodyClasses, headLinks, now, ticks, starts>>

\* the config GET rejects: the catch block returns a copy of the baseline
ConfigFailure(c) ==
  /\ cleared' = NoClear
  /\ UNCHANGED managerVars
  /\ call[c].pc = "config"
  /\ call' = [call EXCEPT ![c] = [call[c] EXCEPT !.pc = "resume", !.path = "fetchfail",
                                     !.config = BaseCopy(assetMapping, call[c].code)]]
  /\ UNCHANGED <<assetMapping, tenantConfig, cacheTimeout, currentTenant, currentSubTenant,
                 tenantObserver, subTenantObserver, storageObserver, sessionStorage, storageMode,
                 bodyClasses, headLinks, now, ticks, starts>>

\* fetchTenantConfigFromAPI lines 150-162 with the merged config; legal is
\* whether the legal-document GET brought documents ("docs") or not ("unset")
CacheMerged(c, mergedConfig, legal) ==
  /\ cleared' = NoClear
  /\ UNCHANGED managerVars
  /\ tenantConfig' = Put(tenantConfig, call[c].code, mergedConfig)
  /\ IF storageMode = "ok"
     THEN /\ sessionStorage' = Put(sessionStorage, CacheKey(call[c].code),
                                    EntryItem(mergedConfig, call[c].ts))
          /\ call' = [call EXCEPT ![c] = [call[c] EXCEPT !.pc = "resume", !.path = "remote",
                                             !.legal = legal,
                                             !.merged = mergedConfig, !.config = Some(mergedConfig)]]
     ELSE /\ sessionStorage' = sessionStorage
          /\ call' = [call EXCEPT ![c] = [call[c] EXCEPT !.pc = "resume", !.path = "writefail",
                                             !.legal = legal,
                                             !.merged = mergedConfig,
                                             !.config = BaseCopy(assetMapping, call[c].code)]]
  /\ UNCHANGED <<assetMapping, cacheTimeout, currentTenant, currentSubTenant,
                 tenantObserver, subTenantObserver, storageObserver, storageMode,
                 bodyClasses, headLinks, now, ticks, starts>>

\* the legal-document GET resolves
LegalResponse(c, results) ==
  /\ call[c].pc = "legal"
  /\ results \in LegalLists(call[c].code)
  /\ CacheMerged(c, MergeLegal(call[c].merged, results, call[c].code, call[c].ts),
                 IF Len(results) > 0 THEN "docs" ELSE "unset")

\* the legal-document GET rejects
LegalFailure(c) ==
  /\ call[c].pc = "legal"
  /\ CacheMerged(c, call[c].merged, "unset")

\* initializeTenant after `await this.fetchTenantConfigFromAPI(...)`
Resume(c) ==
  /\ cleared' = NoClear
  /\ UNCHANGED managerVars
  /\ call[c].pc = "resume"
  /\ Continue(c, call[c], call, sessionStorage)
  /\ UNCHANGED <<assetMapping, tenantConfig, cacheTimeout, storageMode, now, ticks, starts>>

\* the stylesheet link fires load or error: both resolve the call
StylesSettled(c) ==
  /\ cleared' = NoClear
  /\ UNCHANGED managerVars
  /\ call[c].pc = "styles"
  /\ call' = [call EXCEPT ![c] = [call[c] EXCEPT !.pc = "settled", !.outcome = "resolved"]]
  /\ UNCHANGED <<assetMapping, tenantConfig, cacheTimeout, currentTenant, currentSubTenant,
                 tenantObserver, subTenantObserver, storageObserver, sessionStorage, storageMode,
                 bodyClasses, headLinks, now, ticks, starts>>

\* the caller's continuation has seen the outcome; the slot is free again
Return(c) ==
  /\ cleared' = NoClear
  /\ UNCHANGED managerVars
  /\ call[c].pc = "settled"
  /\ call' = [call EXCEPT ![c] = IdleCall]
  /\ UNCHANGED <<assetMapping, tenantConfig, cacheTimeout, currentTenant, currentSubTenant,
                 tenantObserver, subTenantObserver, storageObserver, sessionStorage, storageMode,
                 bodyClasses, headLinks, now, ticks, starts>>

\* clearCache(T) that forgets the in-memory config and leaves the stored entry
ClearCacheMemoryOnly(tenantCode) ==
  /\ cleared' = Clearing(tenantCode)
  /\ UNCHANGED managerVars
  /\ IF storageMode = "denied"
     THEN UNCHANGED <<sessionStorage, tenantConfig>>
     ELSE IF tenantCode # NULL
     THEN /\ sessionStorage' = sessionStorage
          /\ tenantConfig' = Delete(tenantConfig, tenantCode)
     ELSE /\ sessionStorage' = [k \in (DOMAIN sessionStorage) \
                                       {CacheKey(code) : code \in DOMAIN tenantConfig}
                                  |-> sessionStorage[k]]
          /\ tenantConfig' = EmptyObject
  /\ UNCHANGED <<assetMapping, cacheTimeout, currentTenant, currentSubTenant,
                 tenantObserver, subTenantObserver, storageObserver, storageMode,
                 bodyClasses, headLinks, now, ticks, starts, call>>

\* clearCache: with a tenant code lines 316-318, without one lines 320-324
ClearCache(tenantCode) ==
  /\ cleared' = Clearing(tenantCode)
  /\ UNCHANGED managerVars
  /\ IF storageMode = "denied"
     THEN UNCHANGED <<sessionStorage, tenantConfig>>
     ELSE IF tenantCode # NULL
     THEN /\ sessionStorage' = Delete(sessionStorage, CacheKey(tenantCode))
          /\ tenantConfig' = Delete(tenantConfig, tenantCode)
     ELSE /\ sessionStorage' = [k \in (DOMAIN sessionStorage) \
                                       {CacheKey(code) : code \in DOMAIN tenantConfig}
                                  |-> sessionStorage[k]]
          /\ tenantConfig' = EmptyObject
  /\ UNCHANGED <<assetMapping, cacheTimeout, currentTenant, currentSubTenant,
                 tenantObserver, subTenantObserver, storageObserver, storageMode,
                 bodyClasses, headLinks, now, ticks, starts, call>>

\* a new engine is constructed over the same session storage and document
NewInstance ==
  /\ cleared' = NoClear
  /\ UNCHANGED managerVars
  /\ \A c \in Calls : ~Busy(c)
  /\ assetMapping' = InitialAssetMapping
  /\ tenantConfig' = EmptyObject
  /\ cacheTimeout' = DefaultCacheTimeout
  /\ currentTenant' = "default"
  /\ currentSubTenant' = NULL
  /\ tenantObserver' = <<"default", NULL>>
  /\ subTenantObserver' = <<"default", NULL>>
  /\ storageObserver' = <<StoredText(sessionStorage, TenantKey),
                          StoredText(sessionStorage, SubTenantKey)>>
  /\ UNCHANGED <<sessionStorage, storageMode, bodyClasses, headLinks, now, ticks, starts, call>>

Tick(d) ==
  /\ cleared' = NoClear
  /\ UNCHANGED managerVars
  /\ ticks < MaxTicks
  /\ ticks' = ticks + 1
  /\ now' = now + d
  /\ UNCHANGED <<assetMapping, tenantConfig, cacheTimeout, currentTenant, currentSubTenant,
                 tenantObserver, subTenantObserver, storageObserver, sessionStorage, storageMode,
                 bodyClasses, headLinks, starts, call>>

\* the storage quota is reached: from now on setItem throws
StorageFills ==
  /\ cleared' = NoClear
  /\ UNCHANGED managerVars
  /\ storageMode = "ok"
  /\ storageMode' = "full"
  /\ UNCHANGED <<assetMapping, tenantConfig, cacheTimeout, currentTenant, currentSubTenant,
                 tenantObserver, subTenantObserver, storageObserver, sessionStorage,
                 bodyClasses, headLinks, now, ticks, starts, call>>

\* between two calls, other code of the page leaves a damaged value under
\* a cache key
CorruptEntry(code, item) ==
  /\ cleared' = NoClear
  /\ UNCHANGED managerVars
  /\ storageMode = "ok"
  /\ \A c \in Calls : ~Busy(c)
  /\ Has(sessionStorage, CacheKey(code))
  /\ sessionStorage[CacheKey(code)] # item
  /\ sessionStorage' = Put(sessionStorage, CacheKey(code), item)
  /\ UNCHANGED <<assetMapping, tenantConfig, cacheTimeout, currentTenant, currentSubTenant,
                 tenantObserver, subTenantObserver, storageObserver, storageMode,
                 bodyClasses, headLinks, now, ticks, starts, call>>

\* updateAssetMapping, line 311
UpdateAssetMapping(tenantCode, assetConfig) ==
  /\ cleared' = NoClear
  /\ UNCHANGED managerVars
  /\ assetMapping' = Put(assetMapping, tenantCode, assetConfig)
  /\ UNCHANGED <<tenantConfig, cacheTimeout, currentTenant, currentSubTenant,
                 tenantObserver, subTenantObserver, storageObserver, sessionStorage,
                 storageMode, bodyClasses, headLinks, now, ticks, starts, call>>

\* ---------------------------------------------------- TenantManager actions
\* loadTenantConfig from line 100 to its end for the call rec of slot c, with
\* apiConfig the payload of line 93, None without apiBaseUrl or after a
\* failed fetch.  The configs of the model have neither primaryColor nor
\* backgroundColor, so lines 274-279 set no style property.
LoadTenantConfigTail(c, rec, apiConfig) ==
  LET tenantId == rec.tenantId
      subTenantId == rec.subTenantId
      fetched == IF apiConfig # None THEN SpreadConfig(EmptyConfig, apiConfig[1]) ELSE EmptyConfig
      withCached == IF Has(tenantConfigs, tenantId)
                    THEN SpreadConfig(tenantConfigs[tenantId], fetched)
                    ELSE fetched
      subTenant == IF subTenantId # NULL THEN SubTenantOf(withCached, subTenantId) ELSE None
      config == IF subTenant # None
                THEN SpreadConfig(withCached, Config(subTenant[1], None))
                ELSE withCached
      mode == Get(config.own, "mode")
      storeThrows == options.enableSessionStorage /\ storageMode # "ok"
      themed == ~storeThrows /\ options.enableAutoTheming /\ Truthy(mode)
      themeThrows == themed /\ ContainsWhitespace(mode)
      emitting == ~storeThrows /\ ~themeThrows
      configLoad == Emit(eventListeners["configLoad"])
      tenantChange == Emit(eventListeners["tenantChange"])
      failed == IF storeThrows THEN "store"
                ELSE IF themeThrows THEN "theme"
                ELSE IF configLoad.thrown \/ tenantChange.thrown THEN "listener"
                ELSE IF options.onConfigLoad = "throws" THEN "callback"
                ELSE "none"
      notified == IF ~emitting THEN eventListeners
                  ELSE IF configLoad.thrown
                  THEN [eventListeners EXCEPT !["configLoad"] = configLoad.listeners]
                  ELSE [eventListeners EXCEPT !["configLoad"] = configLoad.listeners,
                                              !["tenantChange"] = tenantChange.listeners]
      error == Emit(notified["error"])
  IN /\ state' = [state EXCEPT !.currentTenant = tenantId, !.currentSubTenant = subTenantId,
                               !.config = Some(config), !.isLoading = FALSE]
     /\ tenantConfigs' = Put(tenantConfigs, tenantId, config)
     /\ sessionStorage' = IF options.enableSessionStorage /\ ~storeThrows
                          THEN StoreInSessionStorage(sessionStorage, tenantId, subTenantId)
                          ELSE sessionStorage
     /\ bodyClasses' = IF ~themed THEN bodyClasses
                       ELSE IF themeThrows THEN RemoveModeClasses(bodyClasses, 1)
                       ELSE ApplyTheming(bodyClasses, config)
     /\ eventListeners' = IF failed # "none"
                          THEN [notified EXCEPT !["error"] = error.listeners]
                          ELSE notified
     /\ emitted' = (IF emitting
                    THEN <<Emitted("configLoad", eventListeners["configLoad"], configLoad)>>
                    ELSE << >>)
                   \o (IF emitting /\ ~configLoad.thrown
                       THEN <<Emitted("tenantChange", eventListeners["tenantChange"], tenantChange)>>
                       ELSE << >>)
                   \o (IF failed # "none"
                       THEN <<Emitted("error", notified["error"], error)>>
                       ELSE << >>)
     /\ managerCall' = [managerCall EXCEPT ![c] =
                          [rec EXCEPT !.pc = IF rec.op = "initialize" THEN "loaded" ELSE "settled",
                                      !.outcome = IF failed = "none" THEN "resolved" ELSE "rejected"]]

\* loadTenantConfig up to the await of line 93, or to its end when there is
\* no apiBaseUrl
LoadTenantConfigHead(c, rec) ==
  IF options.apiBaseUrl
  THEN /\ state' = [state EXCEPT !.isLoading = TRUE]
       /\ managerCall' = [managerCall EXCEPT ![c] = [rec EXCEPT !.pc = "fetch"]]
       /\ emitted' = << >>
       /\ UNCHANGED <<tenantConfigs, eventListeners, sessionStorage, bodyClasses>>
  ELSE LoadTenantConfigTail(c, rec, None)

\* a manager call may start in slot c
ManagerCallStarts(c) ==
  /\ managerCall[c].pc = "idle"
  /\ \A d \in Calls : managerCall[d].pc = "idle" => c <= d
  /\ managerStarts < MaxManagerStarts
  /\ managerStarts' = managerStarts + 1

\* loadTenantConfig(tenantId, subTenantId) called by the host
LoadTenantConfig(c, tenantId, subTenantId) ==
  /\ ManagerCallStarts(c)
  /\ LoadTenantConfigHead(c, [IdleManagerCall EXCEPT !.op = "loadTenantConfig",
                                                     !.tenantId = tenantId,
                                                     !.subTenantId = subTenantId])
  /\ UNCHANGED <<options, storageMode>>
  /\ UNCHANGED coreVars

\* switchTenant(tenantId, subTenantId): loadTenantConfig with its result dropped
SwitchTenant(c, tenantId, subTenantId) ==
  /\ ManagerCallStarts(c)
  /\ LoadTenantConfigHead(c, [IdleManagerCall EXCEPT !.op = "switchTenant",
                                                     !.tenantId = tenantId,
                                                     !.subTenantId = subTenantId])
  /\ UNCHANGED <<options, storageMode>>
  /\ UNCHANGED coreVars

\* resolveTenantFromSources: session storage first, then the URL
ResolveTenantFromSources ==
  LET stored == options.enableSessionStorage
      tenantId == IF stored THEN StoredText(sessionStorage, TenantKey) ELSE NULL
      subTenantId == IF stored THEN StoredText(sessionStorage, ManagerSubTenantKey) ELSE NULL
  IN IF tenantId = NULL /\ options.enableUrlParsing
     THEN [tenantId |-> UrlParameters.tenantId,
           subTenantId |-> IF UrlParameters.subTenantId # NULL
                           THEN UrlParameters.subTenantId ELSE subTenantId]
     ELSE [tenantId |-> tenantId, subTenantId |-> subTenantId]

\* initialize up to its await of loadTenantConfig; reading a storage that
\* denies access throws at line 186 and the call rejects at once
Initialize(c) ==
  /\ ManagerCallStarts(c)
  /\ IF options.enableSessionStorage /\ storageMode = "denied"
     THEN LET error == Emit(eventListeners["error"])
          IN /\ state' = [state EXCEPT !.isLoading = FALSE]
             /\ eventListeners' = [eventListeners EXCEPT !["error"] = error.listeners]
             /\ emitted' = <<Emitted("error", eventListeners["error"], error)>>
             /\ managerCall' = [managerCall EXCEPT ![c] =
                                  [IdleManagerCall EXCEPT !.op = "initialize", !.pc = "settled",
                                                          !.outcome = "rejected"]]
             /\ UNCHANGED <<tenantConfigs, sessionStorage, bodyClasses>>
     ELSE LET found == ResolveTenantFromSources
          IN LoadTenantConfigHead(c,
               IF found.tenantId # NULL
               THEN [IdleManagerCall EXCEPT !.op = "initialize", !.tenantId = found.tenantId,
                                            !.subTenantId = found.subTenantId]
               ELSE [IdleManagerCall EXCEPT !.op = "initialize",
                                            !.tenantId = options.defaultTenant])
  /\ UNCHANGED <<options, storageMode>>
  /\ UNCHANGED coreVars

\* the API fetch of line 93 resolves with data
ApiResponse(c, apiConfig) ==
  /\ managerCall[c].pc = "fetch"
  /\ LoadTenantConfigTail(c, managerCall[c], Some(apiConfig))
  /\ UNCHANGED <<options, storageMode, managerStarts>>
  /\ UNCHANGED coreVars

\* the API fetch fails: network error, status not ok, or success false
ApiFailure(c) ==
  /\ managerCall[c].pc = "fetch"
  /\ LoadTenantConfigTail(c, managerCall[c], None)
  /\ UNCHANGED <<options, storageMode, managerStarts>>
  /\ UNCHANGED coreVars

\* initialize after its await of loadTenantConfig: lines 69-70, or the catch
\* of lines 72-75, and the finally of line 77
InitializeResume(c) ==
  /\ managerCall[c].pc = "loaded"
  /\ LET eventType == IF managerCall[c].outcome = "resolved" THEN "initialized" ELSE "error"
         emit == Emit(eventListeners[eventType])
     IN /\ state' = [state EXCEPT !.isLoading = FALSE,
                                  !.isInitialized = (managerCall[c].outcome = "resolved")
                                                      \/ state.isInitialized]
        /\ eventListeners' = [eventListeners EXCEPT ![eventType] = emit.listeners]
        /\ emitted' = <<Emitted(eventType, eventListeners[eventType], emit)>>
  /\ managerCall' = [managerCall EXCEPT ![c] = [managerCall[c] EXCEPT !.pc = "settled"]]
  /\ UNCHANGED <<options, tenantConfigs, sessionStorage, storageMode, bodyClasses, managerStarts>>
  /\ UNCHANGED coreVars

\* the caller's continuation has seen the outcome; the slot is free again
ManagerReturn(c) ==
  /\ managerCall[c].pc = "settled"
  /\ managerCall' = [managerCall EXCEPT ![c] = IdleManagerCall]
  /\ emitted' = << >>
  /\ UNCHANGED <<state, options, eventListeners, tenantConfigs, sessionStorage, storageMode,
                 bodyClasses, managerStarts>>
  /\ UNCHANGED coreVars

\* on(eventType, listener), for a listener that is not registered yet
On(eventType, listener) ==
  /\ Len(eventListeners[eventType]) < MaxListeners
  /\ IndexOf(eventListeners[eventType], listener) = 0
  /\ eventListeners' = [eventListeners EXCEPT ![eventType] = Append(@, listener)]
  /\ emitted' = << >>
  /\ UNCHANGED <<state, options, tenantConfigs, sessionStorage, storageMode, bodyClasses,
                 managerCall, managerStarts>>
  /\ UNCHANGED coreVars

\* off(eventType, listener) called by the host outside a notification
Off(eventType, listener) ==
  /\ eventListeners' = [eventListeners EXCEPT ![eventType] = OffList(@, listener)]
  /\ emitted' = << >>
  /\ UNCHANGED <<state, options, tenantConfigs, sessionStorage, storageMode, bodyClasses,
                 managerCall, managerStarts>>
  /\ UNCHANGED coreVars

\* setTenantConfig, line 345
SetTenantConfig(tenantId, config) ==
  /\ tenantConfigs' = Put(tenantConfigs, tenantId, config)
  /\ emitted' = << >>
  /\ UNCHANGED <<state, options, eventListeners, sessionStorage, storageMode, bodyClasses,
                 managerCall, managerStarts>>
  /\ UNCHANGED coreVars

\* new TenantManager(o) on the same page, once the calls of the manager
\* before it are over
NewManager(o) ==
  /\ \A c \in Calls : managerCall[c].pc = "idle"
  /\ state' = InitialState
  /\ options' = o
  /\ eventListeners' = [eventType \in EventTypes |-> << >>]
  /\ tenantConfigs' = EmptyObject
  /\ emitted' = << >>
  /\ UNCHANGED <<sessionStorage, storageMode, bodyClasses, managerCall, managerStarts>>
  /\ UNCHANGED coreVars

\* the steps of the calls in flight and of the engine's surroundings
Steps ==
  \/ \E c \in Calls, config \in RemotePayloads : ConfigResponse(c, config)
  \/ \E c \in Calls : ConfigFailure(c)
  \/ \E c \in Calls : LegalFailure(c)
  \/ \E c \in Calls, results \in UNION {LegalResults(code) : code \in Codes} :
        LegalResponse(c, results)
  \/ \E c \in Calls : Resume(c)
  \/ \E c \in Calls : StylesSettled(c)
  \/ \E c \in Calls : Return(c)
  \/ \E tenantCode \in Codes \cup {NULL} : ClearCache(tenantCode)
  \/ NewInstance
  \/ \E d \in TickSteps : Tick(d)
  \/ StorageFills
  \/ \E code \in Codes, item \in {UnparsableItem, MalformedItem} : CorruptEntry(code, item)

\* calls made one after the other, each awaited before the next
Next ==
  \/ \E c \in Calls, o \in InitOptions :
        (\A d \in Calls : ~Busy(d)) /\ Start(c, o.code, o.sub, o.url, o.to)
  \/ Steps

Spec == Init /\ [][Next]_vars

\* every transport request in flight settles, every continuation that is
\* ready runs, every stylesheet link fires load or error
Fairness ==
  \A c \in Calls :
    /\ WF_vars((\E config \in RemotePayloads : ConfigResponse(c, config)) \/ ConfigFailure(c))
    /\ WF_vars((\E results \in UNION {LegalResults(code) : code \in Codes} :
                  LegalResponse(c, results)) \/ LegalFailure(c))
    /\ WF_vars(Resume(c))
    /\ WF_vars(StylesSettled(c))

SpecLive == Spec /\ Fairness

\* overlapping calls, one call per slot
NextOverlap ==
  \/ \E c \in Calls, o \in InitOptions :
        starts < Cardinality(Calls) /\ Start(c, o.code, o.sub, o.url, o.to)
  \/ Steps

SpecOverlap == Init /\ [][NextOverlap]_vars

\* resolution passes over a remote endpoint that answers the config GET
\* with a payload of any shape, one call after the other
NextMerge ==
  \/ \E c \in Calls, o \in InitOptions :
        (\A d \in Calls : ~Busy(d)) /\ o.url /\ Start(c, o.code, o.sub, o.url, o.to)
  \/ \E c \in Calls, config \in MergePayloads : ConfigResponse(c, config)
  \/ \E c \in Calls : LegalFailure(c)
  \/ \E c \in Calls, results \in UNION {LegalResults(code) : code \in Codes} :
        LegalResponse(c, results)
  \/ \E c \in Calls : Resume(c)
  \/ \E c \in Calls : StylesSettled(c)
  \/ \E c \in Calls : Return(c)

SpecMerge == Init /\ [][NextMerge]_vars

\* resolution passes over a remote endpoint that answers the legal-document
\* GET with a Results list of any shape, one call after the other
NextLegal ==
  \/ \E c \in Calls, o \in InitOptions :
        (\A d \in Calls : ~Busy(d)) /\ o.url /\ Start(c, o.code, o.sub, o.url, o.to)
  \/ \E c \in Calls, config \in RemotePayloads : ConfigResponse(c, config)
  \/ \E c \in Calls : LegalFailure(c)
  \/ \E c \in Calls, results \in UNION {LegalLists(code) : code \in Codes} :
        LegalResponse(c, results)
  \/ \E c \in Calls : Resume(c)
  \/ \E c \in Calls : StylesSettled(c)
  \/ \E c \in Calls : Return(c)

SpecLegal == Init /\ [][NextLegal]_vars

\* calls made one after the other by a host that registers entries at run
\* time, before or between the calls and while one is awaiting a response
NextRegistry ==
  \/ \E u \in AssetUpdates : UpdateAssetMapping(u.tenantCode, u.assetConfig)
  \/ \E c \in Calls, o \in InitOptions :
        (\A d \in Calls : ~Busy(d)) /\ Start(c, o.code, o.sub, o.url, o.to)
  \/ \E c \in Calls, config \in RemotePayloads : ConfigResponse(c, config)
  \/ \E c \in Calls : ConfigFailure(c)
  \/ \E c \in Calls : LegalFailure(c)
  \/ \E c \in Calls, results \in UNION {LegalResults(code) : code \in Codes} :
        LegalResponse(c, results)
  \/ \E c \in Calls : Resume(c)
  \/ \E c \in Calls : StylesSettled(c)
  \/ \E c \in Calls : Return(c)

SpecRegistry == Init /\ [][NextRegistry]_vars

\* the calls of a host to a TenantManager, overlapping when they await the
\* API, with the managers it constructs and the configs it sets for tenants
NextManager ==
  \/ \E c \in Calls, tenantId \in ManagerTenants, subTenantId \in ManagerSubTenants \cup {NULL} :
        LoadTenantConfig(c, tenantId, subTenantId)
  \/ \E c \in Calls, tenantId \in ManagerTenants, subTenantId \in ManagerSubTenants \cup {NULL} :
        SwitchTenant(c, tenantId, subTenantId)
  \/ \E c \in Calls : Initialize(c)
  \/ \E c \in Calls, apiConfig \in ApiPayloads : ApiResponse(c, apiConfig)
  \/ \E c \in Calls : ApiFailure(c)
  \/ \E c \in Calls : InitializeResume(c)
  \/ \E c \in Calls : ManagerReturn(c)
  \/ \E local \in LocalConfigs : SetTenantConfig(local.tenantId, local.config)
  \/ \E o \in ManagerOptions : NewManager(o)

SpecManager == Init /\ [][NextManager]_vars

\* the calls of a host that registers and removes listeners, to a manager
\* without API
NextListeners ==
  \/ \E eventType \in ListenedTypes, listener \in Listeners : On(eventType, listener)
  \/ \E eventType \in ListenedTypes, listener \in Listeners : Off(eventType, listener)
  \/ \E c \in Calls, tenantId \in ManagerTenants, subTenantId \in ManagerSubTenants \cup {NULL} :
        LoadTenantConfig(c, tenantId, subTenantId)
  \/ \E c \in Calls, tenantId \in ManagerTenants, subTenantId \in ManagerSubTenants \cup {NULL} :
        SwitchTenant(c, tenantId, subTenantId)
  \/ \E c \in Calls : ManagerReturn(c)

SpecListeners == Init /\ [][NextListeners]_vars

\* ------------------------------------------------------------------ claims
\* slot c makes the first step of an initializeTenant call
Starts(c) == call[c].pc = "idle" /\ call'[c].pc # "idle"

Registered(code) == Has(assetMapping, code)

\* C1: an initializeTenant call with an unregistered tenant code fails
\* (its promise rejects with UnknownTenant) and getCurrentTenant() returns
\* the same value as before the call.
UnknownTenantFails ==
  [][\A c \in Calls :
       (Starts(c) /\ ~Registered(call'[c].code))
         => (call'[c].outcome = "rejected" /\ GetCurrentTenant' = GetCurrentTenant)]_vars

\* C2: an initializeTenant call with an unregistered tenant code leaves the
\* active tenant and sub-tenant, the cache (memory and storage), the cache
\* TTL, the persisted identity keys, the body classes and the stylesheet
\* link as they were, whatever other options it carries.
UnknownTenantTouchesNothing ==
  [][\A c \in Calls :
       (Starts(c) /\ ~Registered(call'[c].code))
         => UNCHANGED <<currentTenant, currentSubTenant, tenantConfig, cacheTimeout,
                        sessionStorage, bodyClasses, headLinks>>]_vars

\* C3: when an initializeTenant(T) call for a registered T has completed
\* and no other call ran beside it, getCurrentTenant() returns T, whether
\* the call hit the cache, fetched remotely or fell back to the baseline.
CompletedCallSetsTenant ==
  \A c \in Calls :
    (call[c].pc = "settled" /\ Registered(call[c].code) /\ ~call[c].overlapped)
      => GetCurrentTenant = call[c].code

\* C3 witness: a call alone, away from the default tenant, whose config
\* fetch failed, has completed and its tenant is the current one.
CompletedCallSetsTenantWitness ==
  \E c \in Calls :
    /\ call[c].pc = "settled" /\ ~call[c].overlapped
    /\ call[c].code = "Privilege_Dufry" /\ call[c].path = "fetchfail"
    /\ GetCurrentTenant = "Privilege_Dufry"

\* C4: an initializeTenant call for a registered tenant code never ends in
\* an error, whatever the fetches, the cache read and write, a throwing
\* session storage, a damaged stored entry and the stylesheet load do.
RegisteredTenantNeverRejects ==
  \A c \in Calls :
    (call[c].pc = "settled" /\ Registered(call[c].code)) => call[c].outcome = "resolved"

\* C5: a subscriber that reads the active state inside the change
\* notification reads the tenant and the sub-tenant of one and the same
\* call: both fields have advanced before any subscriber is notified.
SubscribersSeeWholeAdvance ==
  /\ tenantObserver = <<GetCurrentTenant, GetCurrentSubTenant>>
  /\ subTenantObserver = <<GetCurrentTenant, GetCurrentSubTenant>>

\* C6: a call that finds a valid (non-expired) cache entry for its tenant
\* at lookup issues no transport request, neither the config GET nor the
\* legal-document GET.
CacheHitIssuesNoRequest ==
  \A c \in Calls :
    call[c].lookup = "valid" => (call[c].reqs = 0 /\ call[c].pc \notin {"config", "legal"})

\* C6 witness: a call that found a valid entry has completed on the cache hit.
CacheHitIssuesNoRequestWitness ==
  \E c \in Calls :
    call[c].lookup = "valid" /\ call[c].path = "hit" /\ call[c].pc = "settled"

\* C7: when a call hits the cache, the config exposed after it
\* (getAllConfig) is the cached entry's data, whether the entry was written
\* by this engine instance or by an earlier one over the same storage.
CacheHitExposesCachedConfig ==
  [][\A c \in Calls :
       (Starts(c) /\ call'[c].path = "hit" /\ call'[c].pc = "styles")
         => GetAllConfig' = call'[c].config]_vars

\* C8 as stated: a lookup finds the entry valid iff now - timestamp < ttl;
\* a lookup that finds an entry with now - timestamp >= ttl removes the
\* entry from session storage and the call issues a fresh config fetch.
ExpiredEntryAlwaysRefetched ==
  [][\A c \in Calls :
       /\ (Starts(c) /\ call'[c].lookup = "valid") => call'[c].path = "hit"
       /\ (Starts(c) /\ call'[c].lookup = "expired")
            => /\ ~Has(sessionStorage', CacheKey(call'[c].code))
               /\ call'[c].pc = "config" /\ call'[c].reqs = 1]_vars

\* C8 amended: a lookup finds the entry valid iff now - timestamp < ttl; a
\* lookup that finds an entry with now - timestamp >= ttl (the boundary
\* included) returns none and removes the entry from session storage; the
\* call takes the cache-miss path, which issues a fresh config fetch when
\* the call supplies a remote endpoint and, when it supplies none, resolves
\* from the registry baseline without any request.
ExpiredEntryTakesMissPath ==
  [][\A c \in Calls :
       /\ (Starts(c) /\ call'[c].lookup = "valid") => call'[c].path = "hit"
       /\ (Starts(c) /\ call'[c].lookup = "expired")
            => /\ ~Has(sessionStorage', CacheKey(call'[c].code))
               /\ call'[c].path # "hit"
               /\ call'[c].url => (call'[c].pc = "config" /\ call'[c].reqs = 1)
               /\ ~call'[c].url => (call'[c].pc = "resume" /\ call'[c].reqs = 0
                                     /\ call'[c].config = BaseCopy(assetMapping, call'[c].code))]_vars

\* C8 witness: a call found an expired entry, the entry is gone and the
\* config GET is in flight.
ExpiredEntryTakesMissPathWitness ==
  \E c \in Calls :
    /\ call[c].lookup = "expired" /\ call[c].pc = "config"
    /\ ~Has(sessionStorage, CacheKey(call[c].code))

\* C9: the TTL a call applies to its cache lookup is its own cacheTimeout
\* option when it gives one and the 24-hour default otherwise: an override
\* given by an earlier call does not carry over.
TtlIsPerCall ==
  [][\A c \in Calls :
       (Starts(c) /\ Registered(call'[c].code))
         => cacheTimeout' = IF call'[c].to # 0 THEN call'[c].to ELSE DefaultCacheTimeout]_vars

\* C10: a call whose config fetch threw resolves without error, its config
\* is the registry baseline alone, and no cache entry exists for its tenant
\* when it completes, so that the next call fetches again.
FetchFailureFallsBack ==
  \A c \in Calls :
    (call[c].pc = "settled" /\ call[c].path = "fetchfail")
      => /\ call[c].outcome = "resolved"
         /\ call[c].config = Some(assetMapping[call[c].code].base)
         /\ EntryState(sessionStorage, call[c].code, now, cacheTimeout) \in {"absent", "damaged"}

\* the step stores a cache entry under the tenant's key, new or in place of
\* the value that was there
EntryWritten(code) ==
  /\ Has(sessionStorage', CacheKey(code))
  /\ sessionStorage'[CacheKey(code)].json = "entry"
  /\ ~Has(sessionStorage, CacheKey(code))
       \/ sessionStorage[CacheKey(code)] # sessionStorage'[CacheKey(code)]

BaselineOnly(path) == path \in {"local", "fetchfail", "writefail"}

\* C11: every cache entry in session storage is written by a resolution
\* pass whose config fetch succeeded, and holds that pass's merged config; a
\* step of a call with a baseline-only result (fetch failure, no remote
\* endpoint) never creates or overwrites a cache entry.
CacheEntriesComeFromRemote ==
  [][/\ \A code \in Codes :
          EntryWritten(code)
            => \E c \in Calls :
                  /\ call[c].pc = "legal" /\ call[c].code = code
                  /\ call'[c].path = "remote"
                  /\ sessionStorage'[CacheKey(code)] = EntryItem(call'[c].merged, call'[c].ts)
     /\ \A c \in Calls :
          (call'[c] # call[c] /\ BaselineOnly(call'[c].path))
            => \A code \in Codes : ~EntryWritten(code)]_vars

\* C11 witness: a call whose config fetch failed has completed over a
\* storage that accepts writes, and its tenant has no cache entry.
CacheEntriesComeFromRemoteWitness ==
  \E c \in Calls :
    /\ call[c].pc = "settled" /\ call[c].path = "fetchfail" /\ storageMode = "ok"
    /\ call[c].outcome = "resolved"
    /\ ~Has(sessionStorage, CacheKey(call[c].code))

\* the call of slot c has completed without error and no call ran beside it
CompletedAlone(c) ==
  /\ call[c].pc = "settled" /\ call[c].outcome = "resolved"
  /\ ~call[c].overlapped /\ call[c].config # None

\* C12: a completed initializeTenant(T, S) with S a registered sub-tenant
\* of T has resolved a config in which every field of S's override has the
\* override's value, and a completed initializeTenant(T) has resolved a
\* config without S's overrides; with the built-in registry,
\* Privilege_Dufry alone yields currencySymbol '$', and with alipay yields
\* the alipay currency sign and the body class 'Privilege_Dufry-mode-alipay'.
SubTenantOverridesWin ==
  \A c \in Calls :
    CompletedAlone(c) =>
      LET config == call[c].config[1]
          subTenants == assetMapping[call[c].code].subTenants
      IN /\ (call[c].sub # NULL /\ Has(subTenants, call[c].sub))
              => \A k \in DOMAIN subTenants[call[c].sub] :
                    Get(config, k) = subTenants[call[c].sub][k]
         /\ (call[c].code = "Privilege_Dufry" /\ call[c].sub = NULL)
              => /\ Get(config, "currencySymbol") = Str("$")
                 /\ ~Has(config, "subTenantId")
         /\ (call[c].code = "Privilege_Dufry" /\ call[c].sub = "alipay")
              => /\ Get(config, "currencySymbol") = Str("Yen")
                 /\ \E i \in 1..Len(bodyClasses) :
                       bodyClasses[i] = <<"Privilege_Dufry", "mode", "alipay">>

\* the three sources of the merge of the call of slot c, and the keys of
\* any of them or of the result
BaselineOf(c) == assetMapping[call[c].code].base

OverrideOf(c) ==
  IF call[c].rsub # NULL THEN assetMapping[call[c].code].subTenants[call[c].rsub]
  ELSE EmptyObject

MergeKeys(c) ==
  (DOMAIN BaselineOf(c)) \cup (DOMAIN call[c].remote) \cup (DOMAIN OverrideOf(c))
    \cup (DOMAIN call[c].merged)

\* the config GET of the call of slot c has resolved and the merge is made
Fetched(c) == call[c].pc = "legal" \/ call[c].path \in {"remote", "writefail"}

\* override first, then remote, then baseline
ByPrecedence(c, k) ==
  IF Has(OverrideOf(c), k) THEN OverrideOf(c)[k]
  ELSE IF Has(call[c].remote, k) THEN call[c].remote[k]
  ELSE Get(BaselineOf(c), k)

\* C13 as stated: after a successful config fetch on a cache miss, for
\* every top-level key the resolved value is the sub-tenant override's if
\* the override has the key, else the remote payload's if it has the key,
\* else the baseline's.
MergePrecedenceEveryKey ==
  \A c \in Calls :
    Fetched(c) => \A k \in MergeKeys(c) : Get(call[c].merged, k) = ByPrecedence(c, k)

\* the value that the engine computes itself for key k
Computed(c, k) ==
  CASE k = "welcomeImg" ->
         IF Truthy(Get(call[c].remote, "BrandImageUrl"))
         THEN [s |-> call[c].remote["BrandImageUrl"].s, t |-> call[c].ts]
         ELSE Get(BaselineOf(c), "partnerLogo")
    [] k = "storeLogo" ->
         IF Truthy(Get(call[c].remote, "LogoUrl"))
         THEN [s |-> call[c].remote["LogoUrl"].s, t |-> call[c].ts]
         ELSE Get(BaselineOf(c), "partnerLogo")
    [] k = "partnerName" ->
         IF Truthy(Get(call[c].remote, "Title")) THEN call[c].remote["Title"]
         ELSE Get(BaselineOf(c), "title")
    [] k = "redemptionPartnerCode" -> Str(call[c].code)

\* the value of key k before the legal documents are merged in
BeforeLegal(c, k) ==
  IF call[c].rsub # NULL /\ k \in {"currentSubTenant", "subTenantId"} THEN Str(call[c].rsub)
  ELSE IF Has(OverrideOf(c), k) THEN OverrideOf(c)[k]
  ELSE IF k \in {"welcomeImg", "storeLogo", "partnerName", "redemptionPartnerCode"}
  THEN Computed(c, k)
  ELSE IF Has(call[c].remote, k) THEN call[c].remote[k]
  ELSE Get(BaselineOf(c), k)

\* C13 amended: for every top-level key the resolved value is the
\* sub-tenant override's if the override has the key; else, for welcomeImg,
\* storeLogo, partnerName and redemptionPartnerCode, the value the engine
\* computes (cache-busted BrandImageUrl or LogoUrl or the baseline logo,
\* remote Title or the baseline title, the call's tenant code), whatever
\* the payload has under these keys; else the remote payload's if it has
\* the key, else the baseline's.  With a registered sub-tenant the keys
\* currentSubTenant and subTenantId hold its id, and once the legal
\* documents are fetched termsAndConditionsPath and privacyPolicyPath hold
\* their cache-busted URLs.
MergePrecedenceComputedKeys ==
  \A c \in Calls :
    Fetched(c) =>
      LET merged == call[c].merged
          legal == {"termsAndConditionsPath", "privacyPolicyPath"}
          terms == [s |-> TenantDoc(call[c].code).Url.s, t |-> call[c].ts]
          privacy == [s |-> GenericDoc.Url.s, t |-> call[c].ts]
      IN /\ \A k \in MergeKeys(c) \ legal : Get(merged, k) = BeforeLegal(c, k)
         /\ \/ \A k \in legal : Get(merged, k) = BeforeLegal(c, k)
            \/ /\ call[c].pc # "legal"
               /\ Get(merged, "termsAndConditionsPath") = terms
               /\ Get(merged, "privacyPolicyPath") = privacy

\* C13 witness: a pass with the alipay sub-tenant over a payload that has
\* title, BrandImageUrl and welcomeImg has merged and stored its config:
\* the title is the override's, the welcome image the cache-busted brand
\* image.
MergePrecedenceComputedKeysWitness ==
  \E c \in Calls :
    /\ call[c].path = "remote" /\ call[c].rsub = "alipay" /\ call[c].remote = PayloadFull
    /\ call[c].merged["title"] = Str("Privilege Dufry Alipay")
    /\ call[c].merged["welcomeImg"] = [s |-> <<"https://cdn/brand.png">>, t |-> call[c].ts]
    /\ Has(sessionStorage, CacheKey(call[c].code))

\* the sub-tenant that the active resolved config is tagged with
ConfigSubTenant ==
  IF GetAllConfig # None /\ Truthy(Get(GetAllConfig[1], "subTenantId"))
  THEN GetAllConfig[1]["subTenantId"].s[1]
  ELSE NULL

\* the sub-tenant in the path of the stylesheet link now in the head
StylesSubTenant ==
  IF Len(headLinks) > 0 /\ Len(headLinks[Len(headLinks)].href) = 6
  THEN headLinks[Len(headLinks)].href[4]
  ELSE NULL

NoCallInFlight == \A c \in Calls : call[c].pc \in {"idle", "settled"}

\* C14: whenever no initializeTenant call is in flight, the sub-tenant
\* tagged in the active resolved config, getCurrentSubTenant() and the
\* sub-tenant in the stylesheet path name the same sub-tenant or all none.
SubTenantViewsAgree ==
  NoCallInFlight
    => (ConfigSubTenant = GetCurrentSubTenant /\ StylesSubTenant = GetCurrentSubTenant)

\* the call of slot c names a sub-tenant that its registered tenant has not
InvalidSubTenant(c) ==
  /\ Registered(call[c].code) /\ call[c].sub # NULL
  /\ ~Has(assetMapping[call[c].code].subTenants, call[c].sub)

\* C15: a completed initializeTenant(T, s) with s not a registered
\* sub-tenant of the registered tenant T has resolved without error,
\* getCurrentSubTenant() is none and the persisted SubTenantId key is
\* cleared.
InvalidSubTenantDowngraded ==
  \A c \in Calls :
    (call[c].pc = "settled" /\ InvalidSubTenant(c) /\ ~call[c].overlapped)
      => /\ call[c].outcome = "resolved"
         /\ GetCurrentSubTenant = NULL
         /\ ~Has(sessionStorage, SubTenantKey)

\* C16: an initializeTenant(T) call with a remote endpoint made right after
\* a clearCache(T) that removed T's still valid cache entry finds no entry
\* and issues a fresh config fetch.
ClearedTenantRefetched ==
  \A c \in Calls :
    (call[c].afterClear /\ call[c].url)
      => (call[c].lookup = "absent" /\ call[c].path # "hit" /\ call[c].reqs >= 1)

\* C16 witness: the config GET of such a call is in flight.
ClearedTenantRefetchedWitness ==
  \E c \in Calls :
    call[c].afterClear /\ call[c].url /\ call[c].pc = "config" /\ call[c].reqs = 1

\* C17: after a clearCache() without argument, session storage holds no
\* cache entry for any tenant code, whichever engine instance wrote it.
ClearAllLeavesNoEntry ==
  [][ClearCache(NULL) => \A code \in Codes : ~Has(sessionStorage', CacheKey(code))]_vars

\* C18: a clearCache(T) call removes T's cache entry from session storage
\* and T's config from memory; the cache entries and in-memory configs of
\* every other tenant, the persisted identity keys, the active tenant and
\* sub-tenant, the registry, the body classes and the stylesheet link are
\* as before.
ClearTenantRemovesOnlyThat ==
  [][\A T \in Codes :
       ClearCache(T)
         => /\ ~Has(sessionStorage', CacheKey(T)) /\ ~Has(tenantConfig', T)
            /\ (DOMAIN sessionStorage) \ {CacheKey(T)} = DOMAIN sessionStorage'
            /\ \A k \in DOMAIN sessionStorage' : sessionStorage'[k] = sessionStorage[k]
            /\ (DOMAIN tenantConfig) \ {T} = DOMAIN tenantConfig'
            /\ \A code \in DOMAIN tenantConfig' : tenantConfig'[code] = tenantConfig[code]
            /\ UNCHANGED <<currentTenant, currentSubTenant, assetMapping, bodyClasses,
                           headLinks>>]_vars

\* C19: a lookup that finds an unparsable or malformed value under the
\* tenant's cache key is a miss and removes the value from session storage
\* in the same step, whatever resolution follows.
DamagedEntryRemoved ==
  [][\A c \in Calls :
       (Starts(c) /\ call'[c].lookup = "damaged")
         => (call'[c].path # "hit" /\ ~Has(sessionStorage', CacheKey(call'[c].code)))]_vars

\* C20: the body never carries more than one mode class applied by the
\* engine, and once a call has applied its config the body carries exactly
\* the mode class of that config.
OneModeClass ==
  /\ Len(bodyClasses) <= 1
  /\ \A c \in Calls :
       (CompletedAlone(c) \/ (call[c].pc = "styles" /\ ~call[c].overlapped))
         => bodyClasses = <<GetModeClass(call[c].config[1])>>

\* the step in which the call of slot c applies its presentation
AppliesPresentation(c) == call[c].pc # "styles" /\ call'[c].pc = "styles"

\* C21: the head never holds more than one link with the id
\* tenant-specific-styles; a call that applies its presentation leaves
\* exactly one link, a newly created element whose href is the stylesheet
\* path of the call's tenant and sub-tenant, in place of the one that was
\* there; nothing else changes the links.
SingleStylesheetLink ==
  [][/\ Len(headLinks') <= 1
     /\ \A c \in Calls :
          AppliesPresentation(c)
            => /\ Len(headLinks') = 1
               /\ headLinks'[1].href = StylesHref(call'[c].code, call'[c].rsub)
               /\ \A i \in 1..Len(headLinks) : headLinks[i].node # headLinks'[1].node
     /\ headLinks' # headLinks => \E c \in Calls : AppliesPresentation(c)]_vars

\* C21 witness: a call that ran beside another one has applied its
\* presentation after an earlier application: the head holds the second
\* element created, with the call's path, and nothing else.
SingleStylesheetLinkWitness ==
  \E c \in Calls :
    /\ call[c].pc = "styles" /\ call[c].overlapped
    /\ headLinks = <<[href |-> StylesHref(call[c].code, call[c].rsub), node |-> 2]>>

\* the call of slot c is between its first statement and its settlement
InFlight(c) == call[c].pc \notin {"idle", "settled"}

\* C22: every initializeTenant call for a registered tenant eventually
\* resolves (its promise is fulfilled), given that every request it issues
\* settles and the stylesheet link fires load or error.
RegisteredCallResolves ==
  \A c \in Calls :
    (InFlight(c) /\ Registered(call[c].code))
      ~> (call[c].pc = "settled" /\ call[c].outcome = "resolved")

\* C23: in the step in which a call starts waiting on the stylesheet the
\* subjects already hold the call's tenant and sub-tenant; while the call
\* waits they keep these values unless another call advances them, and
\* every step of every other call in flight remains possible, so that only
\* the waiting call's completion depends on the stylesheet.
StalledStylesheetStallsOneCall ==
  /\ [][\A c \in Calls :
          AppliesPresentation(c)
            => (GetCurrentTenant' = call'[c].code /\ GetCurrentSubTenant' = call'[c].rsub)]_vars
  /\ [](\A c \in Calls :
          call[c].pc = "styles"
            => /\ ~call[c].overlapped
                    => (GetCurrentTenant = call[c].code /\ GetCurrentSubTenant = call[c].rsub)
               /\ \A d \in Calls \ {c} :
                    /\ call[d].pc = "config"
                         => /\ ENABLED (\E config \in RemotePayloads : ConfigResponse(d, config))
                            /\ ENABLED ConfigFailure(d)
                    /\ call[d].pc = "legal"
                         => /\ ENABLED (\E results \in LegalResults(call[d].code) :
                                           LegalResponse(d, results))
                            /\ ENABLED LegalFailure(d)
                    /\ call[d].pc = "resume" => ENABLED Resume(d)
                    /\ call[d].pc = "styles" => ENABLED StylesSettled(d)
                    /\ call[d].pc = "settled" => ENABLED Return(d))

\* C23 witness: while one call still waits on its stylesheet, another call
\* for another tenant has advanced the state after it and has completed.
StalledStylesheetStallsOneCallWitness ==
  \E c, d \in Calls :
    /\ call[c].pc = "styles" /\ call[d].pc = "settled" /\ call[d].outcome = "resolved"
    /\ call[d].code # call[c].code /\ call[d].config # None
    /\ GetCurrentTenant = call[d].code

\* the step in which the call of slot c advances the subjects and notifies
\* the subscribers
Advances(c) ==
  /\ call[c].pc \in {"idle", "resume"} /\ call'[c].pc \in {"styles", "settled"}
  /\ call'[c].config # None

\* C24: a subscriber that reads session storage when it is notified of a
\* call's change finds the call's identity there: RedemptionPartnerCode is
\* the call's tenant code and SubTenantId its sub-tenant id, or absent
\* when the call has none.
IdentityStoredBeforeBroadcast ==
  [][\A c \in Calls :
       Advances(c) => storageObserver' = <<call'[c].code, call'[c].rsub>>]_vars

\* C25: overlapping calls are not serialized: each call that reaches its
\* state advance sets the active tenant and sub-tenant to its own,
\* whichever call was initiated last, and nothing but such a step (or the
\* construction of a new engine) changes them; so the active state is
\* that of the call whose advance ran last.
LastAdvanceWins ==
  [][/\ \A c \in Calls :
          Advances(c)
            => (GetCurrentTenant' = call'[c].code /\ GetCurrentSubTenant' = call'[c].rsub)
     /\ <<currentTenant, currentSubTenant>>' # <<currentTenant, currentSubTenant>>
          => ((\E c \in Calls : Advances(c)) \/ NewInstance)]_vars

\* C25 witness: two overlapping calls for different tenants have both
\* completed; the one initiated later resolved at once without a fetch and
\* advanced the state, the one initiated earlier fetched remotely and
\* advanced it afterwards: the earlier call's tenant is the active one.
LastAdvanceWinsWitness ==
  \E c, d \in Calls :
    /\ call[c].serial < call[d].serial /\ call[c].overlapped /\ call[d].overlapped
    /\ call[c].pc = "settled" /\ call[c].outcome = "resolved" /\ call[c].path = "remote"
    /\ call[d].pc = "settled" /\ call[d].outcome = "resolved" /\ call[d].reqs = 0
    /\ call[d].config # None /\ call[d].code # call[c].code
    /\ GetCurrentTenant = call[c].code

\* the subjects, the persisted identity keys and the stylesheet link name
\* one and the same tenant and sub-tenant
AdvancedAsOne ==
  /\ StoredText(sessionStorage, TenantKey) = GetCurrentTenant
  /\ StoredText(sessionStorage, SubTenantKey) = GetCurrentSubTenant
  /\ Len(headLinks) = 1
  /\ headLinks[1].href = StylesHref(GetCurrentTenant, GetCurrentSubTenant)

\* C26: whenever control is back in the event loop after a call has
\* advanced the state, the active tenant and sub-tenant, the persisted
\* identity keys and the stylesheet path belong to the same call: a step
\* that advances the state leaves them all advanced, and no later step of
\* this engine separates them.
NeverHalfAdvanced ==
  [][/\ (\E c \in Calls : Advances(c)) => AdvancedAsOne'
     /\ (AdvancedAsOne /\ ~NewInstance) => AdvancedAsOne']_vars

LegalKeys == {"termsAndConditionsPath", "privacyPolicyPath"}

\* C27: when the legal-document GET of a pass fails or returns no results
\* after a successful config GET, the pass returns the merged remote
\* config as it was before, without termsAndConditionsPath and
\* privacyPolicyPath, and stores it in memory and in the session-storage
\* cache; the call then resolves with that config, not with the baseline.
LegalFailureKeepsRemote ==
  /\ [][\A c \in Calls :
          (call[c].pc = "legal" /\ call'[c].legal = "unset")
            => /\ call'[c].path = "remote"
               /\ call'[c].config = Some(call[c].merged)
               /\ \A k \in LegalKeys : ~Has(call'[c].config[1], k)
               /\ Has(sessionStorage', CacheKey(call[c].code))
               /\ sessionStorage'[CacheKey(call[c].code)] = EntryItem(call[c].merged, call[c].ts)
               /\ Get(tenantConfig', call[c].code) = call[c].merged]_vars
  /\ [](\A c \in Calls :
          (call[c].pc = "settled" /\ call[c].legal = "unset")
            => (call[c].outcome = "resolved" /\ call[c].config = Some(call[c].merged)))


\* the document that line 138 selects, said by position: the matching
\* document that no matching document precedes, else the first document
TermsDocument(results, code) ==
  LET matching == {i \in 1..Len(results) : CodeIncludes(results[i], code)}
  IN IF matching # {}
     THEN results[CHOOSE i \in matching : \A j \in matching : i <= j]
     ELSE results[1]

\* C28: for every non-empty Results list of the legal-document response, the
\* pass takes termsAndConditionsPath from the first document whose Code
\* contains the tenant code, or from the first document when none does, and
\* privacyPolicyPath from the first document, each with the pass's timestamp;
\* these are the paths of the merged config that the pass keeps in
\* this.tenantConfig and, when it ends on the remote path, resolves with
LegalDocumentSelection ==
  [][\A c \in Calls : \A results \in LegalLists(call[c].code) :
        (Len(results) > 0 /\ LegalResponse(c, results))
          => /\ Get(call'[c].merged, "termsAndConditionsPath")
                  = Busted(TermsDocument(results, call[c].code).Url, call[c].ts)
             /\ Get(call'[c].merged, "privacyPolicyPath")
                  = Busted(results[1].Url, call[c].ts)
             /\ Get(tenantConfig', call[c].code) = call'[c].merged
             /\ call'[c].path = "remote" => call'[c].config = Some(call'[c].merged)]_vars

\* a call has resolved with the terms of the tenant's second document, which
\* only the list of three documents puts first among the matching ones, and
\* the privacy policy of the first document
LegalDocumentSelectionWitness ==
  \E c \in Calls :
    /\ call[c].pc = "settled"
    /\ call[c].outcome = "resolved"
    /\ call[c].legal = "docs"
    /\ Get(call[c].config[1], "termsAndConditionsPath") = Busted(TenantDocAlt(call[c].code).Url, call[c].ts)
    /\ Get(call[c].config[1], "privacyPolicyPath") = Busted(GenericDoc.Url, call[c].ts)


\* a config that the resolution pass of the call in slot c has produced
ResolvedConfig(c) ==
  call[c].pc \in {"resume", "styles", "settled"} /\ call[c].config # None

\* C29: in every resolved config, whichever path produced it (remote, cache
\* hit or baseline fallback, with or without a sub-tenant) and whatever the
\* remote payload, the registered entry or its sub-tenant override carry,
\* redemptionPartnerCode is the tenant code that initializeTenant was given
RedemptionCodeIsTenantCode ==
  \A c \in Calls :
    ResolvedConfig(c)
      => Get(call[c].config[1], "redemptionPartnerCode") = Str(call[c].code)


\* the derived fields and the payload field that each is computed from
DerivedKeys == {"welcomeImg", "storeLogo", "partnerName"}

DerivedSource(k) ==
  CASE k = "welcomeImg" -> "BrandImageUrl"
    [] k = "storeLogo" -> "LogoUrl"
    [] k = "partnerName" -> "Title"

\* C30: on the remote path with no sub-tenant, welcomeImg and storeLogo are
\* the payload's BrandImageUrl and LogoUrl with the pass's timestamp, or the
\* baseline partnerLogo when the payload has no value there (the field is
\* missing or empty), and partnerName is the payload's Title, or the
\* baseline title; the config keeps nothing that the payload has under
\* welcomeImg, storeLogo or partnerName, and it is the config the call
\* resolves with
DerivedFieldsRecomputed ==
  \A c \in Calls :
    (Fetched(c) /\ call[c].rsub = NULL) =>
      /\ \A k \in DerivedKeys :
            LET source == Get(call[c].remote, DerivedSource(k))
                fallback == Get(BaselineOf(c), IF k = "partnerName" THEN "title" ELSE "partnerLogo")
            IN /\ Has(call[c].merged, k)
               /\ call[c].merged[k] =
                    IF ~Truthy(source) THEN fallback
                    ELSE IF k = "partnerName" THEN source
                    ELSE Busted(source, call[c].ts)
               /\ (Has(call[c].remote, k) /\ call[c].remote[k] \notin {source, fallback})
                    => call[c].merged[k] # call[c].remote[k]
      /\ call[c].path = "remote" => call[c].config = Some(call[c].merged)

\* a call without sub-tenant has resolved on the remote path over a payload
\* that has a welcomeImg of its own and a BrandImageUrl, with the
\* cache-busted BrandImageUrl as welcomeImg
DerivedFieldsRecomputedWitness ==
  \E c \in Calls :
    /\ call[c].pc = "settled" /\ call[c].outcome = "resolved"
    /\ call[c].path = "remote" /\ call[c].rsub = NULL
    /\ Has(call[c].remote, "welcomeImg")
    /\ Truthy(Get(call[c].remote, "BrandImageUrl"))
    /\ call[c].config[1]["welcomeImg"] = Busted(call[c].remote["BrandImageUrl"], call[c].ts)
    /\ call[c].config[1]["welcomeImg"] # call[c].remote["welcomeImg"]


\* the step writes the cache entry of tenant code
WritesEntry(code) ==
  /\ Has(sessionStorage', CacheKey(code))
  /\ sessionStorage'[CacheKey(code)].json = "entry"
  /\ ~Has(sessionStorage, CacheKey(code))
       \/ sessionStorage[CacheKey(code)] # sessionStorage'[CacheKey(code)]

\* C34: the timestamp of a cache entry is the clock value at the moment the
\* entry is written, so the entry is valid when written and stays valid for
\* the full TTL from then on, however long the fetches before the write took
EntryStampedAtWrite ==
  [][\A code \in Codes :
        WritesEntry(code)
          => /\ sessionStorage'[CacheKey(code)].timestamp = now'
             /\ EntryState(sessionStorage', code, now', cacheTimeout') = "valid"]_vars


\* the keys of the registered entry of code that reach a resolved config
\* from the entry alone: no remote payload and no sub-tenant override of the
\* entry has them, and the engine computes none of them
BaselineOwnKeys(code) ==
  (DOMAIN assetMapping[code].base)
    \ (UNION {DOMAIN config : config \in RemotePayloads}
          \cup UNION {DOMAIN assetMapping[code].subTenants[sub] :
                        sub \in DOMAIN assetMapping[code].subTenants}
          \cup DerivedKeys \cup LegalKeys
          \cup {"redemptionPartnerCode", "currentSubTenant", "subTenantId"})

\* config has the values of the entry registered for code under the keys
\* that only the entry provides
BuiltOnEntry(config, code) ==
  \A k \in BaselineOwnKeys(code) : Get(config, k) = assetMapping[code].base[k]

\* C33: a registered tenant is accepted by initializeTenant, whether the
\* constructor or an updateAssetMapping call registered it, and the config
\* of a call is built on the entry that is registered for its tenant when
\* the call builds it (at once on a cache hit or without k8sUrl, after the
\* config GET otherwise), not on an entry that was replaced before;
\* updateAssetMapping changes neither the active tenant and sub-tenant nor
\* the persisted identity nor the body classes and stylesheet links
UpdatedEntryIsBaseline ==
  [][(\A c \in Calls :
        /\ (Starts(c) /\ Registered(call'[c].code)) => call'[c].path # "invalid"
        /\ (Starts(c) /\ call'[c].config # None)
             => BuiltOnEntry(call'[c].config[1], call'[c].code)
        /\ (call[c].pc = "config" /\ call'[c].pc = "legal")
             => BuiltOnEntry(call'[c].merged, call[c].code)
        /\ (call[c].pc = "config" /\ call'[c].config # None)
             => BuiltOnEntry(call'[c].config[1], call[c].code))
     /\ (assetMapping' # assetMapping
           => /\ UNCHANGED <<currentTenant, currentSubTenant, bodyClasses, headLinks>>
              /\ StoredText(sessionStorage', TenantKey) = StoredText(sessionStorage, TenantKey)
              /\ StoredText(sessionStorage', SubTenantKey) = StoredText(sessionStorage, SubTenantKey))]_vars


\* the manager call of slot c completes loadTenantConfig in this step
LoadCompletes(c) ==
  /\ managerCall[c].pc \in {"idle", "fetch"}
  /\ managerCall'[c].pc \in {"loaded", "settled"}
  /\ managerCall'[c].tenantId # NULL

\* the listener was invoked in a notification of the manager's last step
Invoked(listener) ==
  \E i \in 1..Len(emitted) : IndexOf(emitted[i].invoked, listener) > 0

\* no listener of the list calls off()
NoneCallsOff(listeners) ==
  \A i \in 1..Len(listeners) : listeners[i] \in {"quiet", "thrower"}

\* C31: a listener that throws during a notification changes nothing for
\* the others: the notification invokes the listeners that it invokes when
\* none throws (all of them, in order, when no listener calls off()), and a
\* loadTenantConfig or switchTenant call in which a listener threw resolves
\* with currentTenant, currentSubTenant, config and the tenant's stored
\* config set to the call's
ThrowingListenerIsolated ==
  /\ [](\A i \in 1..Len(emitted) :
          LET registered == emitted[i].registered
          IN /\ emitted[i].invoked
                  = ForEachListener(registered, 1, Len(registered), << >>).invoked
             /\ NoneCallsOff(registered) => emitted[i].invoked = registered)
  /\ [][\A c \in Calls :
          (LoadCompletes(c) /\ Invoked("thrower")')
            => /\ managerCall'[c].outcome = "resolved"
               /\ state'.currentTenant = managerCall'[c].tenantId
               /\ state'.currentSubTenant = managerCall'[c].subTenantId
               /\ state'.config # None
               /\ Get(tenantConfigs', managerCall'[c].tenantId) = state'.config[1]]_vars

\* a switchTenant call has resolved after a notification in which the
\* listener registered first threw and the one registered after it was
\* invoked
ThrowingListenerIsolatedWitness ==
  \E c \in Calls :
    /\ managerCall[c].pc = "settled" /\ managerCall[c].outcome = "resolved"
    /\ managerCall[c].op = "switchTenant"
    /\ state.currentTenant = managerCall[c].tenantId
    /\ \E i \in 1..Len(emitted) :
         /\ emitted[i].type = "tenantChange"
         /\ emitted[i].registered = <<"thrower", "quiet">>
         /\ emitted[i].invoked = <<"thrower", "quiet">>

\* C32: a notification invokes every listener registered for the event
\* type when it starts, exactly once and in registration order, also when
\* a listener calls off() during the notification
EmitInvokesAllRegistered ==
  \A i \in 1..Len(emitted) : emitted[i].invoked = emitted[i].registered

\* the values that the tenant has of its own for the key: the one of the
\* config registered for it and the ones of the API payloads
OwnValues(tenantId, k) ==
  {local.config.own[k] : local \in {l \in LocalConfigs : l.tenantId = tenantId /\ Has(l.config.own, k)}}
    \cup {payload.own[k] : payload \in {a \in ApiPayloads : Has(a.own, k)}}

\* every value of the config is one of the tenant's own
OnlyOwnValues(config, tenantId) ==
  \A k \in DOMAIN config.own : config.own[k] \in OwnValues(tenantId, k)

\* C35: a switchTenant(T) without sub-tenant leaves, as the current config
\* and as the config stored for T, a config made of T's own values only
\* (registered local config and API payload), with no override value of a
\* sub-tenant in it, whatever calls preceded it
SwitchWithoutSubTenantIsOwn ==
  [][\A c \in Calls :
       (/\ LoadCompletes(c)
        /\ managerCall'[c].op = "switchTenant"
        /\ managerCall'[c].subTenantId = NULL)
         => (/\ state'.config # None
             /\ OnlyOwnValues(state'.config[1], managerCall'[c].tenantId)
             /\ OnlyOwnValues(Get(tenantConfigs', managerCall'[c].tenantId),
                              managerCall'[c].tenantId))]_vars

\* C36: with session storage enabled, when a loadTenantConfig or
\* switchTenant call resolves, the tenant key holds currentTenant and the
\* sub-tenant key holds currentSubTenant or is absent when there is none,
\* so that initialize() on a fresh manager over the same storage finds
\* that tenant and sub-tenant
PersistedIdentityIsCurrent ==
  [][\A c \in Calls :
       (/\ LoadCompletes(c)
        /\ managerCall'[c].outcome = "resolved"
        /\ options.enableSessionStorage)
         => (/\ StoredText(sessionStorage', TenantKey) = state'.currentTenant
             /\ StoredText(sessionStorage', ManagerSubTenantKey) = state'.currentSubTenant
             /\ ResolveTenantFromSources' = [tenantId |-> state'.currentTenant,
                                             subTenantId |-> state'.currentSubTenant])]_vars

\* C37: a loadTenantConfig, switchTenant or initialize call that rejects
\* leaves currentTenant, currentSubTenant, the current config and the
\* per-tenant config map as they were before the call: the step in which
\* the load fails changes none of them
RejectedCallLeavesState ==
  [][\A c \in Calls :
       (LoadCompletes(c) /\ managerCall'[c].outcome = "rejected")
         => (/\ state'.currentTenant = state.currentTenant
             /\ state'.currentSubTenant = state.currentSubTenant
             /\ state'.config = state.config
             /\ tenantConfigs' = tenantConfigs)]_vars

\* an initialize, loadTenantConfig or switchTenant call is in flight: it has
\* started and its promise has not settled
ManagerCallInFlight(c) == managerCall[c].pc \in {"fetch", "loaded"}

\* C38: state.isLoading is true in every state in which at least one
\* initialize, loadTenantConfig or switchTenant call is in flight, and
\* false when none is, also when two calls overlap and one of them
\* finishes before the other
IsLoadingWhileInFlight ==
  state.isLoading = (\E c \in Calls : ManagerCallInFlight(c))

====
